---- MODULE Spec2Model ----
(***************************************************************************)
(* State-machine model of the Trustroots KPI service: the process entry    *)
(* point (main), one collection cycle (runCollection -> CollectAllData ->  *)
(* CollectTrustrootsData / CollectNostrootsData -> SaveToFile), the relay  *)
(* fan-out (queryRelays) and the event bucketing (processEvents).          *)
(*                                                                         *)
(* Time is counted in units since 1970-01-01T00:00:00Z, UnitsPerDay units  *)
(* per calendar day.  The service runs with time.Local = UTC (the image is *)
(* alpine without tzdata), so every Format call is a UTC calendar date.    *)
(* A formatted date "YYYY-MM-DD" is the triple <<y, m, d>>; the order of   *)
(* the strings is the lexicographic order of the triples.                  *)
(***************************************************************************)
EXTENDS Integers, Sequences, FiniteSets, TLC

(***************************************************************************)
(* Bounds of the model.                                                    *)
(***************************************************************************)
\* units of time per calendar day (a day has more than one instant)
UnitsPerDay == 2
\* collection cycles one process runs before the model stops scheduling
MaxCycles == 2
\* the most user records the identity conversion is applied to
MaxUsers == 3
\* the most documents of the collection a store query is applied to
MaxDocs == 2
\* pieces in which the serialized snapshot reaches the file
NumChunks == 2

\* an optional value (a Go pointer or error): None for nil, Some(x) otherwise
None == << >>
Some(x) == << x >>

(***************************************************************************)
(* Calendar: time.Time.Format("2006-01-02") and time.Time.AddDate.         *)
(***************************************************************************)
\* days since 1970-01-01 of the (possibly unnormalised) civil date y-m-d
DaysFromCivil(y, m, d) ==
    LET yy  == IF m <= 2 THEN y - 1 ELSE y
        era == yy \div 400
        yoe == yy - era * 400
        mp  == IF m > 2 THEN m - 3 ELSE m + 9
        doy == (153 * mp + 2) \div 5 + d - 1
        doe == yoe * 365 + yoe \div 4 - yoe \div 100 + doy
    IN  era * 146097 + doe - 719468

\* the civil date <<y, m, d>> of day number z
CivilFromDays(z) ==
    LET zz  == z + 719468
        era == zz \div 146097
        doe == zz - era * 146097
        yoe == (doe - doe \div 1460 + doe \div 36524 - doe \div 146096) \div 365
        doy == doe - (365 * yoe + yoe \div 4 - yoe \div 100)
        mp  == (5 * doy + 2) \div 153
        d   == doy - (153 * mp + 2) \div 5 + 1
        m   == IF mp < 10 THEN mp + 3 ELSE mp - 9
        y   == yoe + era * 400
    IN  << IF m <= 2 THEN y + 1 ELSE y, m, d >>

\* t.Format("2006-01-02")
Format(t) == CivilFromDays(t \div UnitsPerDay)

\* string order of two formatted dates
DateLess(a, b) ==
    \/ a[1] < b[1]
    \/ a[1] = b[1] /\ a[2] < b[2]
    \/ a[1] = b[1] /\ a[2] = b[2] /\ a[3] < b[3]

\* t.AddDate(0, 0, days): same clock reading, the date moved and normalised
AddDate(t, days) ==
    LET c == CivilFromDays(t \div UnitsPerDay)
    IN  DaysFromCivil(c[1], c[2], c[3] + days) * UnitsPerDay + (t % UnitsPerDay)

\* time.Parse("2006-01-02", s): midnight UTC of the date
ParseDate(y, m, d) == DaysFromCivil(y, m, d) * UnitsPerDay

(***************************************************************************)
(* Configuration and the outside world.                                    *)
(***************************************************************************)
\* cfg.NostrRelays: the default NOSTR_RELAYS list
Relays == << "wss://relay.trustroots.org", "wss://relay.nomadwiki.org" >>

\* the kinds of the relay filter
FilterKinds == {0, 1, 4, 30023, 397, 30398, 30399}

\* fmt.Sprintf("%d", k): the decimal digits of k >= 0
RECURSIVE Sprintf(_)
Sprintf(k) == IF k < 10 THEN << k >> ELSE Append(Sprintf(k \div 10), k % 10)

\* the keys of the per-day map literal of processEvents: "0", "1", "4",
\* "30023", "397", "30398", "30399"
KindKeys ==
    { <<0>>, <<1>>, <<4>>, <<3, 0, 0, 2, 3>>, <<3, 9, 7>>,
      <<3, 0, 3, 9, 8>>, <<3, 0, 3, 9, 9>> }

\* the all-zero map literal of one day
ZeroKinds == [k \in KindKeys |-> 0]

\* the kind test of processEvents
KindCounted(kindStr) ==
    \/ kindStr = <<0>> \/ kindStr = <<1>> \/ kindStr = <<4>>
    \/ kindStr = <<3, 0, 0, 2, 3>> \/ kindStr = <<3, 9, 7>>
    \/ kindStr = <<3, 0, 3, 9, 8>> \/ kindStr = <<3, 0, 3, 9, 9>>

\* the four metric families of CollectTrustrootsData, by error label
Families == << "messages", "reviews", "thread votes", "reply times" >>

\* key strings of user records, as character sequences
Npub1 == << "n", "p", "u", "b", "1" >>
AliceNpub == Npub1 \o << "a" >>
BobNpub == Npub1 \o << "b" >>
BrokenNpub == Npub1 \o << "?" >>
NotARealKey == << "n", "o", "t", "-", "a", "-", "r", "e", "a", "l", "-", "k", "e", "y" >>

\* nip19.Decode of a key string: (prefix, value, err)
Decode(s) ==
    CASE s = AliceNpub -> [err |-> FALSE, prefix |-> "npub", value |-> "pub1"]
      [] s = BobNpub -> [err |-> FALSE, prefix |-> "npub", value |-> "pub2"]
      [] OTHER -> [err |-> TRUE, prefix |-> "", value |-> ""]

\* a user record reduced to its nostrNpub field: absent, or a string
NoField == [set |-> FALSE, key |-> << >>]
Field(s) == [set |-> TRUE, key |-> s]

\* what the users collection can hold
UserSets ==
    { << NoField, Field(<< >>) >>,
      << Field(NotARealKey), NoField >>,
      << Field(AliceNpub), Field(BrokenNpub), Field(<< >>), Field(BobNpub) >> }

\* the explicit reference date of the --date flag used by the model
DateFlag == ParseDate(2024, 3, 3)
\* the wall clock when the process starts, and the latest instant modelled
ClockStart == ParseDate(2024, 3, 5) + 1
ClockEnd == ClockStart + 1

\* an event as a relay returns it
Event(pk, kind, at, content) ==
    [PubKey |-> pk, Kind |-> kind, CreatedAt |-> at, Content |-> content]

\* the events that exist on the relay network
Universe ==
    << Event("pub1", 1, ParseDate(2024, 3, 2), "a"),
       Event("pub2", 30023, ParseDate(2024, 2, 25) + 1, "b"),
       Event("pub2", 1, ParseDate(2024, 3, 4), "c") >>

\* the documents of the store, reduced to the fields the pipelines read
Message(at) == [created |-> at]
Experience(at, rec) == [created |-> at, recommend |-> rec]
ReferenceThread(at, ref) == [created |-> at, reference |-> ref]
MessageStat(at, reply) == [firstMessageCreated |-> at, timeToFirstReply |-> reply]

\* the four collections as a record
Collections(ms, xs, rs, ss) ==
    [messages |-> ms, experiences |-> xs, referencethreads |-> rs, messagestats |-> ss]

\* what the store holds while the process runs
DefaultStore ==
    Collections(<< Message(ParseDate(2024, 3, 1)), Message(ParseDate(2024, 3, 2) + 1),
                   Message(ParseDate(2024, 3, 2)) >>,
                << Experience(ParseDate(2024, 3, 2), "yes"),
                   Experience(ParseDate(2024, 3, 2) + 1, "maybe") >>,
                << ReferenceThread(ParseDate(2024, 3, 1) + 1, "no"),
                   ReferenceThread(ParseDate(2024, 3, 1), "flag") >>,
                << MessageStat(ParseDate(2024, 3, 2), Some(300)),
                   MessageStat(ParseDate(2024, 3, 2) + 1, None) >>)


(***************************************************************************)
(* Configuration: loadConfig, loadConfigFromFile, getEnv, getEnvInt and    *)
(* resolveOutputPath.                                                      *)
(***************************************************************************)
ConfigKeys ==
    {"MONGO_URI", "MONGO_DB", "NOSTR_RELAYS", "OUTPUT_PATH", "UPDATE_INTERVAL_MINUTES"}

\* the texts UPDATE_INTERVAL_MINUTES is set to
IntervalTexts == {"15", "0", "-5", "soon"}

\* the value a key other than UPDATE_INTERVAL_MINUTES is set to
CustomValue(k) ==
    CASE k = "MONGO_URI" -> "mongodb://db.internal:27017"
      [] k = "MONGO_DB" -> "trustroots-test"
      [] k = "NOSTR_RELAYS" -> "wss://relay.example.org, wss://nos.lol"
      [] k = "OUTPUT_PATH" -> "/srv/kpi/kpi.json"

\* the settings a .env file or the environment can hold: any part of the
\* keys, each with a value
SettingSets ==
    UNION { { [k \in S |-> IF k = "UPDATE_INTERVAL_MINUTES" THEN iv ELSE CustomValue(k)] :
                iv \in IntervalTexts } : S \in SUBSET ConfigKeys }

\* os.Getenv: "" for a variable that is not set
Getenv(env, key) == IF key \in DOMAIN env THEN env[key] ELSE ""

\* getEnv(key, defaultValue)
getEnv(env, key, defaultValue) ==
    IF Getenv(env, key) # "" THEN Getenv(env, key) ELSE defaultValue

\* strconv.Atoi on the texts of the model: Some(n), or None for an error
Atoi(text) ==
    CASE text = "60" -> Some(60)
      [] text = "15" -> Some(15)
      [] text = "0" -> Some(0)
      [] text = "-5" -> Some(0 - 5)
      [] OTHER -> None

\* getEnvInt(key, defaultValue)
getEnvInt(env, key, defaultValue) ==
    IF Getenv(env, key) # "" /\ Atoi(Getenv(env, key)) # None
    THEN Atoi(Getenv(env, key))[1]
    ELSE defaultValue

\* strings.Split(value, ",") on the relay lists of the model
Split(value) ==
    CASE value = "wss://relay.trustroots.org,wss://relay.nomadwiki.org" ->
             << "wss://relay.trustroots.org", "wss://relay.nomadwiki.org" >>
      [] value = "wss://relay.example.org, wss://nos.lol" ->
             << "wss://relay.example.org", " wss://nos.lol" >>
      [] OTHER -> << value >>

\* strings.TrimSpace on the relay URLs of the model
TrimSpace(text) == IF text = " wss://nos.lol" THEN "wss://nos.lol" ELSE text

\* config := &Config{}
ZeroConfig ==
    [MongoURI |-> "", MongoDB |-> "", NostrRelays |-> << >>, OutputPath |-> "",
     UpdateInterval |-> 0]

\* the switch of loadConfigFromFile over the key=value lines of the file
FileConfig(lines) ==
    [MongoURI |-> IF "MONGO_URI" \in DOMAIN lines THEN lines["MONGO_URI"]
                  ELSE ZeroConfig.MongoURI,
     MongoDB |-> IF "MONGO_DB" \in DOMAIN lines THEN lines["MONGO_DB"]
                 ELSE ZeroConfig.MongoDB,
     NostrRelays |-> IF "NOSTR_RELAYS" \in DOMAIN lines THEN Split(lines["NOSTR_RELAYS"])
                     ELSE ZeroConfig.NostrRelays,
     OutputPath |-> IF "OUTPUT_PATH" \in DOMAIN lines THEN lines["OUTPUT_PATH"]
                    ELSE ZeroConfig.OutputPath,
     UpdateInterval |->
         IF "UPDATE_INTERVAL_MINUTES" \in DOMAIN lines
            /\ Atoi(lines["UPDATE_INTERVAL_MINUTES"]) # None
         THEN Atoi(lines["UPDATE_INTERVAL_MINUTES"])[1]
         ELSE ZeroConfig.UpdateInterval]

\* loadConfigFromFile(".env"): None when the file cannot be opened
loadConfigFromFile(envFile) ==
    IF envFile = None THEN None ELSE Some(FileConfig(envFile[1]))

\* the configuration from the environment variables
EnvConfig(env) ==
    [MongoURI |-> getEnv(env, "MONGO_URI", "mongodb://localhost:27017"),
     MongoDB |-> getEnv(env, "MONGO_DB", "trustroots"),
     NostrRelays |-> Split(getEnv(env, "NOSTR_RELAYS",
                        "wss://relay.trustroots.org,wss://relay.nomadwiki.org")),
     OutputPath |-> getEnv(env, "OUTPUT_PATH", "public/kpi.json"),
     UpdateInterval |-> getEnvInt(env, "UPDATE_INTERVAL_MINUTES", 60)]

\* the working directory of the process
Cwd == "/app"

\* filepath.Join(Cwd, path) on the paths of the model
Join(path) ==
    CASE path = "" -> Cwd
      [] path = "public/kpi.json" -> "/app/public/kpi.json"
      [] OTHER -> path

\* resolveOutputPath(path)
resolveOutputPath(path) == IF path = "/srv/kpi/kpi.json" THEN path ELSE Join(path)

\* loadConfig(): the file if it can be read, else the environment; then the
\* relay URLs are trimmed and the output path is made absolute
LoadConfigOf(envFile, env) ==
    LET config == IF loadConfigFromFile(envFile) = None THEN EnvConfig(env)
                  ELSE loadConfigFromFile(envFile)[1]
    IN  [config EXCEPT
            !.NostrRelays = [i \in 1..Len(@) |-> TrimSpace(@[i])],
            !.OutputPath = resolveOutputPath(@)]

\* the configuration inputs and results of a process: the .env file (None
\* when there is none), the environment, cfg (None before loadConfig), and
\* the ticker: "none", "ticking", or "panic"
ConfOf(envFile, env) == [file |-> envFile, env |-> env, cfg |-> None, ticker |-> "none"]

\* no .env file and an empty environment, loadConfig done
DefaultConf ==
    [ConfOf(None, << >>) EXCEPT !.cfg = Some(LoadConfigOf(None, << >>))]

(***************************************************************************)
(* The NostrPoster.                                                        *)
(***************************************************************************)
\* the values NSEC_STATS can have: unset, not a bech32 string, an encoded
\* profile, an nsec of a key that has no public key, a good nsec
SignerKeys == {"", "not-an-nsec", "nprofile1qqs", "nsec1zero", "nsec1good"}

\* nip19.Decode of the signer key: the error, and whether the decoded value
\* is a string (npub, nsec, note) or a pointer struct (nprofile, nevent, naddr)
DecodeSigner(key) ==
    CASE key = "nsec1good" -> [err |-> FALSE, prefix |-> "nsec", isString |-> TRUE]
      [] key = "nsec1zero" -> [err |-> FALSE, prefix |-> "nsec", isString |-> TRUE]
      [] key = "nprofile1qqs" -> [err |-> FALSE, prefix |-> "nprofile", isString |-> FALSE]
      [] OTHER -> [err |-> TRUE, prefix |-> "", isString |-> FALSE]

\* nostr.GetPublicKey succeeds
HasPublicKey(key) == key = "nsec1good"

\* PostStats has not been called
IdlePost ==
    [pc |-> "idle", idx |-> 0, conns |-> {}, attempted |-> {}, accepted |-> {},
     successCount |-> 0, err |-> None]

(***************************************************************************)
(* State.                                                                  *)
(***************************************************************************)
VARIABLES
    once,          \* the --once flag
    targetDate,    \* main's targetDate: None, or Some(the parsed --date instant)
    now,           \* the wall clock
    mainPc,        \* where main is: "initial", "select", "scheduled", "exited"
    exitStatus,    \* "running"; "0", "1" or "signal" once exited
    notified,      \* signal.Notify has been called
    sigPending,    \* a signal waits in sigChan
    tickPending,   \* a tick waits in ticker.C
    cycles,        \* collection cycles started so far
    logged,        \* main's last log line about a cycle: <<message, error>>
    pc,            \* where the running cycle is; "idle" between cycles
    target,        \* the targetDate argument of the running cycle
    cycleErr,      \* the error runCollection returns: None, or the wrap chain
    storeExpired,  \* the 30 s context of CollectTrustrootsData has expired
    nostrExpired,  \* the 60 s context of CollectNostrootsData has expired
    tr,            \* models.TrustrootsData being filled: family -> rows
    queried,       \* per family: "pending", "ok" or "failed"
    npubs,         \* result of getNpubsFromUsers
    pubkeys,       \* decoded keys
    validNpubs,    \* count of decoded keys
    filter,        \* the nostr.Filter of queryRelays: None before it is built
    relayIdx,      \* index of the relay the fan-out is at
    conns,         \* indexes of the relays with an open connection
    outcomes,      \* per relay attempted so far: what happened and what it gave
    allEvents,     \* allEvents of queryRelays
    baseDate,      \* baseDate of processEvents: None before it is read
    notesByDay,    \* notesByDay of processEvents: date -> (kind -> count)
    activeAuthors, \* activeAuthors of processEvents
    evIdx,         \* index of the next event of the range loop
    nd,            \* models.NostrootsData of the cycle
    kpiData,       \* models.KPIData of the cycle: None before it is built
    file,          \* the output path: exists, document, chunks on disk
    users,         \* the users collection of the store
    store,         \* the document collections of the store the queries read
    message,       \* the text formatStatsMessage returned: None before it ran
    nsec,          \* the nsec of the NostrPoster (NSEC_STATS)
    post,          \* the PostStats call: position, relay index, connections, counts, error
    conf           \* the .env file, the environment, cfg and the ticker of main

sideVars == << users, store, message, nsec, post, conf >>
mainVars == << once, targetDate, mainPc, exitStatus, notified, sigPending, tickPending, cycles, logged >>
storeVars == << storeExpired, tr, queried >>
identVars == << npubs, pubkeys, validNpubs >>
relayVars == << nostrExpired, filter, relayIdx, conns, outcomes, allEvents >>
procVars == << baseDate, notesByDay, activeAuthors, evIdx, nd >>
vars == << once, targetDate, now, mainPc, exitStatus, notified, sigPending, tickPending,
           cycles, logged, pc, target, cycleErr, storeExpired, nostrExpired, tr, queried,
           npubs, pubkeys, validNpubs, filter, relayIdx, conns, outcomes, allEvents,
           baseDate, notesByDay, activeAuthors, evIdx, nd, kpiData, file, users, store,
           message, nsec, post, conf >>

\* the serialized snapshot of a cycle, named by the cycle and its timestamp
Doc(c, g) == [cycle |-> c, generated |-> g]
\* the document a previous run of the service left at the output path
PreviousDoc == Doc(0, None)
NoFile == [exists |-> FALSE, doc |-> PreviousDoc, len |-> 0]
PreviousFile == [exists |-> TRUE, doc |-> PreviousDoc, len |-> NumChunks]

\* data := &models.NostrootsData{}
ZeroNostroots == [UsersWithNpubs |-> 0, ActivePosters |-> 0, NotesByKindPerDay |-> << >>]

\* the values of a cycle's locals before it has run
FreshCycle ==
    [ cycleErr |-> None, storeExpired |-> FALSE, nostrExpired |-> FALSE,
      tr |-> [f \in 1..Len(Families) |-> << >>],
      queried |-> [f \in 1..Len(Families) |-> "pending"],
      npubs |-> << >>, pubkeys |-> << >>, validNpubs |-> 0, filter |-> None,
      relayIdx |-> 0, conns |-> {}, outcomes |-> << >>, allEvents |-> << >>,
      baseDate |-> None, notesByDay |-> << >>, activeAuthors |-> {}, evIdx |-> 0,
      nd |-> ZeroNostroots, kpiData |-> None ]

\* the locals of the next cycle are those of a cycle that has not run
ResetLocals ==
    /\ cycleErr' = FreshCycle.cycleErr
    /\ storeExpired' = FreshCycle.storeExpired
    /\ nostrExpired' = FreshCycle.nostrExpired
    /\ tr' = FreshCycle.tr
    /\ queried' = FreshCycle.queried
    /\ npubs' = FreshCycle.npubs
    /\ pubkeys' = FreshCycle.pubkeys
    /\ validNpubs' = FreshCycle.validNpubs
    /\ filter' = FreshCycle.filter
    /\ relayIdx' = FreshCycle.relayIdx
    /\ conns' = FreshCycle.conns
    /\ outcomes' = FreshCycle.outcomes
    /\ allEvents' = FreshCycle.allEvents
    /\ baseDate' = FreshCycle.baseDate
    /\ notesByDay' = FreshCycle.notesByDay
    /\ activeAuthors' = FreshCycle.activeAuthors
    /\ evIdx' = FreshCycle.evIdx
    /\ nd' = FreshCycle.nd
    /\ kpiData' = FreshCycle.kpiData

Init ==
    /\ once \in BOOLEAN
    /\ targetDate \in {None, Some(DateFlag)}
    /\ now = ClockStart
    /\ mainPc = "initial"
    /\ exitStatus = "running"
    /\ notified = FALSE
    /\ sigPending = FALSE
    /\ tickPending = FALSE
    /\ cycles = 1
    /\ logged = << "Running KPI collection...", None >>
    /\ pc = "messages"
    /\ target = targetDate
    /\ cycleErr = FreshCycle.cycleErr
    /\ storeExpired = FreshCycle.storeExpired
    /\ nostrExpired = FreshCycle.nostrExpired
    /\ tr = FreshCycle.tr
    /\ queried = FreshCycle.queried
    /\ npubs = FreshCycle.npubs
    /\ pubkeys = FreshCycle.pubkeys
    /\ validNpubs = FreshCycle.validNpubs
    /\ filter = FreshCycle.filter
    /\ relayIdx = FreshCycle.relayIdx
    /\ conns = FreshCycle.conns
    /\ outcomes = FreshCycle.outcomes
    /\ allEvents = FreshCycle.allEvents
    /\ baseDate = FreshCycle.baseDate
    /\ notesByDay = FreshCycle.notesByDay
    /\ activeAuthors = FreshCycle.activeAuthors
    /\ evIdx = FreshCycle.evIdx
    /\ nd = FreshCycle.nd
    /\ kpiData = FreshCycle.kpiData
    /\ file \in {NoFile, PreviousFile}
    /\ users \in UserSets
    /\ store = DefaultStore
    /\ message = None
    /\ nsec = ""
    /\ post = IdlePost
    /\ conf = DefaultConf

\* the process is alive and inside runCollection
Running == mainPc \in {"initial", "scheduled"}

(***************************************************************************)
(* CollectTrustrootsData: the four store queries, in order.                *)
(***************************************************************************)
\* t.Truncate(24 * time.Hour)
Truncate(t) == t - (t % UnitsPerDay)

\* the base date of a query that ignores the target date
StoreBaseFromClock(t, clock) == clock

\* baseDate: targetDate if given, else time.Now() read at the clock
StoreBase(t, clock) == IF t = None THEN clock ELSE t[1]

\* sevenDaysAgo := baseDate.AddDate(0, 0, -7).Truncate(24 * time.Hour)
SevenDaysAgo(base) == Truncate(AddDate(base, 0 - 7))

\* $dateToString with format %Y-%m-%d
DateToString(t) == CivilFromDays(t \div UnitsPerDay)

\* $sort by _id descending
RECURSIVE SortDatesDescending(_)
SortDatesDescending(S) ==
    IF S = {} THEN << >>
    ELSE LET m == CHOOSE x \in S : \A y \in S \ {x} : DateLess(y, x)
         IN  << m >> \o SortDatesDescending(S \ {m})

\* $sort by _id ascending: the group keys in string order
RECURSIVE SortDates(_)
SortDates(S) ==
    IF S = {} THEN << >>
    ELSE LET m == CHOOSE x \in S : \A y \in S \ {x} : DateLess(x, y)
         IN  << m >> \o SortDates(S \ {m})

\* $sum and $avg: the sum of g over the indexes in S
RECURSIVE SumOver(_, _)
SumOver(g, S) ==
    IF S = {} THEN 0
    ELSE LET i == CHOOSE x \in S : TRUE
         IN  g[i] + SumOver(g, S \ {i})

\* the first $group and the $push of the second one: for a day, one
\* (value, count) pair for each discriminator value the day has
Pushed(keyed, d) ==
    { [value |-> v, count |-> Cardinality({i \in DOMAIN keyed : keyed[i] = << d, v >>})] :
        v \in {keyed[i][2] : i \in {k \in DOMAIN keyed : keyed[k][1] = d}} }

\* the loop over the pushed pairs with a plain else: a pair that is not
\* "yes" is taken as "no"
TallyElse(pushed, v) ==
    IF v = "yes"
    THEN IF \E r \in pushed : r.value = "yes"
         THEN (CHOOSE r \in pushed : r.value = "yes").count ELSE 0
    ELSE IF \E r \in pushed : r.value # "yes"
         THEN (CHOOSE r \in pushed : r.value # "yes").count ELSE 0

\* the loop over the pushed pairs: the count of the pair with value v, the
\* zero value when the day has no such pair
Tally(pushed, v) ==
    IF \E r \in pushed : r.value = v
    THEN (CHOOSE r \in pushed : r.value = v).count
    ELSE 0

\* collectMessagesPerDay: the pipeline and the decode loop
MessageRows(docs, base) ==
    LET m == {i \in DOMAIN docs : docs[i].created >= SevenDaysAgo(base)}
        days == SortDates({DateToString(docs[i].created) : i \in m})
    IN  [j \in 1..Len(days) |->
            [Date |-> days[j],
             Count |-> Cardinality({i \in m : DateToString(docs[i].created) = days[j]})]]

\* collectReviewsPerDay: the pipeline and the decode loop
ReviewRows(docs, base) ==
    LET m == {i \in DOMAIN docs : /\ docs[i].created >= SevenDaysAgo(base)
                                  /\ docs[i].recommend \in {"yes", "no"}}
        keyed == [i \in m |-> << DateToString(docs[i].created), docs[i].recommend >>]
        days == SortDates({keyed[i][1] : i \in m})
    IN  [j \in 1..Len(days) |->
            [Date |-> days[j],
             Positive |-> Tally(Pushed(keyed, days[j]), "yes"),
             Negative |-> Tally(Pushed(keyed, days[j]), "no")]]

\* collectThreadVotesPerDay: the pipeline and the decode loop
VoteRows(docs, base) ==
    LET m == {i \in DOMAIN docs : docs[i].created >= SevenDaysAgo(base)}
        keyed == [i \in m |-> << DateToString(docs[i].created), docs[i].reference >>]
        days == SortDates({keyed[i][1] : i \in m})
    IN  [j \in 1..Len(days) |->
            [Date |-> days[j],
             Upvotes |-> Tally(Pushed(keyed, days[j]), "yes"),
             Downvotes |-> Tally(Pushed(keyed, days[j]), "no")]]

\* collectTimeToFirstReplyPerDay: the pipeline and the decode loop
ReplyRows(docs, base) ==
    LET m == {i \in DOMAIN docs : /\ docs[i].firstMessageCreated >= SevenDaysAgo(base)
                                  /\ docs[i].timeToFirstReply # None}
        ms == [i \in m |-> docs[i].timeToFirstReply[1]]
        days == SortDates({DateToString(docs[i].firstMessageCreated) : i \in m})
        OfDay(d) == {i \in m : DateToString(docs[i].firstMessageCreated) = d}
    IN  [j \in 1..Len(days) |->
            [Date |-> days[j],
             AvgMs |-> SumOver(ms, OfDay(days[j])) \div Cardinality(OfDay(days[j]))]]

\* the rows the query of family f returns on the collections s for a base date
StoreRows(f, s, base) ==
    CASE f = 1 -> MessageRows(s.messages, base)
      [] f = 2 -> ReviewRows(s.experiences, base)
      [] f = 3 -> VoteRows(s.referencethreads, base)
      [] f = 4 -> ReplyRows(s.messagestats, base)

\* the rows the query of family f returns when it runs at the given clock
StoreAnswerAt(f, clock) == StoreRows(f, store, StoreBase(target, clock))

\* the rows the store's aggregation returns for a family
StoreAnswer(f) == StoreAnswerAt(f, now)

\* the label CollectTrustrootsData wraps a family's error in
FamilyError(f) ==
    CASE f = 1 -> "failed to collect messages"
      [] f = 2 -> "failed to collect reviews"
      [] f = 3 -> "failed to collect thread votes"
      [] f = 4 -> "failed to collect reply times"

\* where a cycle goes after the query of family f
AfterFamily(f) == IF f < Len(Families) THEN Families[f + 1] ELSE "npubs"

\* err == nil: the rows go into data, the next query follows
StoreQueryOk(f) ==
    /\ tr' = [tr EXCEPT ![f] = StoreAnswer(f)]
    /\ queried' = [queried EXCEPT ![f] = "ok"]
    /\ pc' = AfterFamily(f)
    /\ UNCHANGED cycleErr

\* the error is logged and dropped, the next query follows
StoreQueryFailedSwallowed(f, cause) ==
    /\ queried' = [queried EXCEPT ![f] = "failed"]
    /\ pc' = AfterFamily(f)
    /\ UNCHANGED << tr, cycleErr >>

\* err != nil: CollectTrustrootsData returns nil and the labelled error,
\* CollectAllData wraps it and runCollection returns it
StoreQueryFailed(f, cause) ==
    /\ queried' = [queried EXCEPT ![f] = "failed"]
    /\ cycleErr' = Some(<< "failed to collect Trustroots data", FamilyError(f), cause >>)
    /\ pc' = "ret"
    /\ UNCHANGED tr

\* one of collectMessagesPerDay .. collectTimeToFirstReplyPerDay under ctx
StoreQuery(f) ==
    /\ Running
    /\ pc = Families[f]
    /\ \/ ~storeExpired /\ StoreQueryOk(f)
       \/ ~storeExpired /\ StoreQueryFailed(f, "query failed")
       \/ storeExpired /\ StoreQueryFailed(f, "context deadline exceeded")
    /\ UNCHANGED << sideVars, mainVars, now, target, storeExpired, identVars, relayVars, procVars,
                    kpiData, file >>

collectMessagesPerDay == StoreQuery(1)
collectReviewsPerDay == StoreQuery(2)
collectThreadVotesPerDay == StoreQuery(3)
collectTimeToFirstReplyPerDay == StoreQuery(4)

\* the 30 s deadline of CollectTrustrootsData passes before its work is done
StoreCtxExpire ==
    /\ Running
    /\ pc \in {Families[f] : f \in 1..Len(Families)}
    /\ ~storeExpired
    /\ storeExpired' = TRUE
    /\ UNCHANGED << sideVars, mainVars, now, pc, target, cycleErr, tr, queried, identVars, relayVars,
                    procVars, kpiData, file >>

(***************************************************************************)
(* CollectNostrootsData: identities.                                       *)
(***************************************************************************)
\* the nostrNpub strings the find returns: field present and not ""
NpubsOf(us) ==
    LET kept == SelectSeq(us, LAMBDA u : u.set /\ u.key # << >>)
    IN  [i \in 1..Len(kept) |-> kept[i].key]

\* the test on one string without the decoding
UsableByPrefix(npub) ==
    /\ Len(npub) > 5
    /\ SubSeq(npub, 1, 5) = Npub1

\* the test of queryRelaysForEvents on one string
Usable(npub) ==
    /\ Len(npub) > 5
    /\ SubSeq(npub, 1, 5) = Npub1
    /\ ~Decode(npub).err
    /\ Decode(npub).prefix = "npub"

\* pubkeys of queryRelaysForEvents
PubkeysOf(ns) ==
    LET kept == SelectSeq(ns, Usable)
    IN  [i \in 1..Len(kept) |-> Decode(kept[i]).value]

\* getNpubsFromUsers failed, the error is kept but the cycle goes on to build
\* the snapshot
NpubsFailedContinues(cause) ==
    /\ cycleErr' = Some(<< "failed to collect Nostroots data", "failed to get npubs", cause >>)
    /\ pc' = "merge"
    /\ UNCHANGED npubs

\* getNpubsFromUsers failed: CollectNostrootsData and CollectAllData wrap it
NpubsFailed(cause) ==
    /\ cycleErr' = Some(<< "failed to collect Nostroots data", "failed to get npubs", cause >>)
    /\ pc' = "ret"
    /\ UNCHANGED npubs

getNpubsFromUsers ==
    /\ Running
    /\ pc = "npubs"
    /\ \/ /\ ~nostrExpired
          /\ npubs' = NpubsOf(users)
          /\ pc' = "convert"
          /\ UNCHANGED cycleErr
       \/ ~nostrExpired /\ NpubsFailed("find failed")
       \/ nostrExpired /\ NpubsFailed("context deadline exceeded")
    /\ UNCHANGED << sideVars, mainVars, now, target, storeVars, pubkeys, validNpubs, relayVars,
                    procVars, kpiData, file >>

\* targetDate if given, else time.Now()
BaseOf(t) == IF t = None THEN now ELSE t[1]

\* the filter of queryRelays: since, until, authors, kinds
FilterOf(pks) ==
    [Authors |-> pks,
     Since |-> AddDate(BaseOf(target), 0 - 7),
     Until |-> now,
     Kinds |-> FilterKinds]

\* queryRelaysForEvents up to the call of queryRelays, and the start of
\* queryRelays
queryRelaysForEvents ==
    /\ Running
    /\ pc = "convert"
    /\ IF Len(npubs) = 0
       THEN /\ nd' = [UsersWithNpubs |-> 0, ActivePosters |-> 0, NotesByKindPerDay |-> << >>]
            /\ pc' = "merge"
            /\ UNCHANGED << pubkeys, validNpubs, filter, relayIdx >>
       ELSE /\ pubkeys' = PubkeysOf(npubs)
            /\ validNpubs' = Len(pubkeys')
            /\ IF Len(pubkeys') = 0
               THEN /\ nd' = [UsersWithNpubs |-> validNpubs', ActivePosters |-> 0,
                              NotesByKindPerDay |-> << >>]
                    /\ pc' = "merge"
                    /\ UNCHANGED << filter, relayIdx >>
               ELSE /\ filter' = Some(FilterOf(pubkeys'))
                    /\ relayIdx' = 1
                    /\ pc' = "connect"
                    /\ UNCHANGED nd
    /\ UNCHANGED << sideVars, mainVars, now, target, cycleErr, storeVars, npubs, nostrExpired, conns,
                    outcomes, allEvents, baseDate, notesByDay, activeAuthors, evIdx,
                    kpiData, file >>

\* the 60 s deadline of CollectNostrootsData passes before its work is done
NostrCtxExpire ==
    /\ Running
    /\ pc \in {"npubs", "connect", "query"}
    /\ ~nostrExpired
    /\ nostrExpired' = TRUE
    /\ UNCHANGED << sideVars, mainVars, now, pc, target, cycleErr, storeVars, identVars, filter,
                    relayIdx, conns, outcomes, allEvents, procVars, kpiData, file >>

(***************************************************************************)
(* queryRelays: the fan-out over the configured relays.                    *)
(***************************************************************************)
\* an event satisfies a filter (the relay, and the client library on
\* receipt, keep only such events)
Matches(flt, e) ==
    /\ e.PubKey \in {flt.Authors[i] : i \in 1..Len(flt.Authors)}
    /\ e.Kind \in flt.Kinds
    /\ flt.Since <= e.CreatedAt
    /\ e.CreatedAt <= flt.Until

\* the events of seq at the indexes in S, in the order of seq
RECURSIVE Pick(_, _)
Pick(seq, S) ==
    IF seq = << >> THEN << >>
    ELSE LET rest == Pick(Tail(seq), {i - 1 : i \in S \ {1}})
         IN  IF 1 \in S THEN << Head(seq) >> \o rest ELSE rest

\* what a relay can answer to a filter: any part of the matching events
Answers(flt) ==
    LET matching == {i \in 1..Len(Universe) : Matches(flt, Universe[i])}
    IN  {Pick(Universe, S) : S \in SUBSET matching}

\* the record of one relay attempt
Outcome(i, status, events) == [relay |-> i, status |-> status, events |-> events]

\* log and break: the relay gives nothing, the loop ends
RelaySkippedBreaks(status) ==
    /\ outcomes' = Append(outcomes, Outcome(relayIdx, status, << >>))
    /\ relayIdx' = Len(Relays) + 1
    /\ pc' = "connect"
    /\ UNCHANGED << allEvents, cycleErr >>

\* log and continue: the relay gives nothing, the next relay follows
RelaySkipped(status) ==
    /\ outcomes' = Append(outcomes, Outcome(relayIdx, status, << >>))
    /\ relayIdx' = relayIdx + 1
    /\ pc' = "connect"
    /\ UNCHANGED << allEvents, cycleErr >>

\* nostr.RelayConnect(ctx, relayURL) and what follows it
RelayConnect ==
    /\ Running
    /\ pc = "connect"
    /\ relayIdx <= Len(Relays)
    /\ \/ /\ ~nostrExpired
          /\ conns' = conns \cup {relayIdx}
          /\ pc' = "query"
          /\ UNCHANGED << outcomes, relayIdx, allEvents, cycleErr >>
       \/ RelaySkipped("connect failed") /\ UNCHANGED conns
    /\ UNCHANGED << sideVars, mainVars, now, target, storeVars, identVars, nostrExpired, filter,
                    procVars, kpiData, file >>

\* allEvents = append(allEvents, events...)
RelayCollected(events) ==
    /\ allEvents' = allEvents \o events
    /\ outcomes' = Append(outcomes, Outcome(relayIdx, "ok", events))
    /\ relayIdx' = relayIdx + 1
    /\ pc' = "connect"
    /\ UNCHANGED cycleErr

\* relay.QuerySync(ctx, filter) and what follows it; when the deadline has
\* passed the query ends with an error or with what had arrived
QuerySync ==
    /\ Running
    /\ pc = "query"
    /\ \/ \E events \in Answers(filter[1]) : RelayCollected(events)
       \/ RelaySkipped("query failed")
    /\ UNCHANGED << sideVars, mainVars, now, target, storeVars, identVars, nostrExpired, filter,
                    conns, procVars, kpiData, file >>

\* the loop is over: the deferred relay.Close() calls run, allEvents and a
\* nil error go back to queryRelaysForEvents
queryRelays ==
    /\ Running
    /\ pc = "connect"
    /\ relayIdx > Len(Relays)
    /\ conns' = {}
    /\ pc' = "bucket"
    /\ UNCHANGED << sideVars, mainVars, now, target, cycleErr, storeVars, identVars, nostrExpired,
                    filter, relayIdx, outcomes, allEvents, procVars, kpiData, file >>

(***************************************************************************)
(* processEvents: buckets, counts, active authors.                         *)
(***************************************************************************)
\* the order of both day loops: for i := 6; i >= 0; i--
BucketSteps == << 6, 5, 4, 3, 2, 1, 0 >>

\* the buckets counted back from the day before the base date
BucketDateOffByOne(base, i) == Format(AddDate(base, 0 - i - 1))

\* baseDate.AddDate(0, 0, -i).Format("2006-01-02")
BucketDate(base, i) == Format(AddDate(base, 0 - i))

\* notesByDay after the initialisation loop
InitialNotes(base) ==
    [d \in {BucketDate(base, BucketSteps[j]) : j \in 1..Len(BucketSteps)} |-> ZeroKinds]

\* the body of the event loop without the kind test: dayData[kindStr]++
CountEventAnyKind(notes, e) ==
    LET eventDate == Format(e.CreatedAt)
        kindStr == Sprintf(e.Kind)
    IN  IF eventDate \in DOMAIN notes
        THEN [notes EXCEPT ![eventDate] =
                 [k \in DOMAIN @ \cup {kindStr} |->
                     IF k \in DOMAIN @
                     THEN @[k] + (IF k = kindStr THEN 1 ELSE 0)
                     ELSE 1]]
        ELSE notes

\* the body of the event loop on notesByDay
CountEvent(notes, e) ==
    LET eventDate == Format(e.CreatedAt)
        kindStr == Sprintf(e.Kind)
    IN  IF eventDate \in DOMAIN notes /\ KindCounted(kindStr)
        THEN [notes EXCEPT ![eventDate][kindStr] = @ + 1]
        ELSE notes

\* the conversion loop: one DailyNotes per day of the loop that is in the map
DailyNotesOf(base, notes) ==
    LET days == [j \in 1..Len(BucketSteps) |-> BucketDate(base, BucketSteps[j])]
        kept == SelectSeq(days, LAMBDA d : d \in DOMAIN notes)
    IN  [j \in 1..Len(kept) |-> [Date |-> kept[j], Kinds |-> notes[kept[j]]]]

\* processEvents up to the event loop
processEventsInit ==
    /\ Running
    /\ pc = "bucket"
    /\ baseDate' = Some(BaseOf(target))
    /\ notesByDay' = InitialNotes(BaseOf(target))
    /\ activeAuthors' = {}
    /\ evIdx' = 1
    /\ pc' = "process"
    /\ UNCHANGED << sideVars, mainVars, now, target, cycleErr, storeVars, identVars, relayVars, nd,
                    kpiData, file >>

\* one iteration of the event loop
processEventsStep ==
    /\ Running
    /\ pc = "process"
    /\ evIdx <= Len(allEvents)
    /\ activeAuthors' = activeAuthors \cup {allEvents[evIdx].PubKey}
    /\ notesByDay' = CountEvent(notesByDay, allEvents[evIdx])
    /\ evIdx' = evIdx + 1
    /\ UNCHANGED << sideVars, mainVars, now, pc, target, cycleErr, storeVars, identVars, relayVars,
                    baseDate, nd, kpiData, file >>

\* one poster for each event of the loop
ActivePostersPerEvent(authors, events) == Len(events)

\* data.ActivePosters = len(activeAuthors) after the loop over events
ActivePostersOf(authors, events) == Cardinality(authors)

\* processEvents returns, queryRelaysForEvents returns, CollectNostrootsData
\* fills data
processEvents ==
    /\ Running
    /\ pc = "process"
    /\ evIdx > Len(allEvents)
    /\ nd' = [UsersWithNpubs |-> validNpubs,
              ActivePosters |-> ActivePostersOf(activeAuthors, allEvents),
              NotesByKindPerDay |-> DailyNotesOf(baseDate[1], notesByDay)]
    /\ pc' = "merge"
    /\ UNCHANGED << sideVars, mainVars, now, target, cycleErr, storeVars, identVars, relayVars,
                    baseDate, notesByDay, activeAuthors, evIdx, kpiData, file >>

(***************************************************************************)
(* CollectAllData and SaveToFile.                                          *)
(***************************************************************************)
\* both collectors returned without error: the snapshot is built
CollectAllData ==
    /\ Running
    /\ pc = "merge"
    /\ kpiData' = Some([Generated |-> BaseOf(target), Trustroots |-> tr, Nostroots |-> nd])
    /\ pc' = "mkdir"
    /\ UNCHANGED << sideVars, mainVars, now, target, cycleErr, storeVars, identVars, relayVars,
                    procVars, file >>

\* SaveToFile gives up: runCollection returns the wrapped error
SaveFailed(label, cause) ==
    /\ cycleErr' = Some(<< label, cause >>)
    /\ pc' = "ret"

\* os.MkdirAll and json.MarshalIndent
MkdirAll ==
    /\ Running
    /\ pc = "mkdir"
    /\ \/ pc' = "open" /\ UNCHANGED cycleErr
       \/ SaveFailed("failed to create output directory", "mkdir failed")
    /\ UNCHANGED << sideVars, mainVars, now, target, storeVars, identVars, relayVars, procVars,
                    kpiData, file >>

\* os.WriteFile opens the path with O_WRONLY|O_CREATE|O_TRUNC: what the
\* path holds once the open has succeeded
Opened(doc) == [exists |-> TRUE, doc |-> doc, len |-> 0]

\* os.WriteFile, the open
WriteFileOpen ==
    /\ Running
    /\ pc = "open"
    /\ \/ /\ file' = Opened(Doc(cycles, kpiData[1].Generated))
          /\ pc' = "write"
          /\ UNCHANGED cycleErr
       \/ /\ SaveFailed("failed to write file", "open failed")
          /\ UNCHANGED file
    /\ UNCHANGED << sideVars, mainVars, now, target, storeVars, identVars, relayVars, procVars,
                    kpiData >>

\* os.WriteFile, the write of the data and the close; after the last piece
\* SaveToFile and runCollection return nil
WriteFileWrite ==
    /\ Running
    /\ pc = "write"
    /\ \/ /\ file' = [file EXCEPT !.len = @ + 1]
          /\ pc' = IF file.len + 1 = NumChunks THEN "ret" ELSE "write"
          /\ UNCHANGED cycleErr
       \/ /\ SaveFailed("failed to write file", "write failed")
          /\ UNCHANGED file
    /\ UNCHANGED << sideVars, mainVars, now, target, storeVars, identVars, relayVars, procVars,
                    kpiData >>

(***************************************************************************)
(* main.                                                                   *)
(***************************************************************************)
\* the process ends with the given status
Exit(status) ==
    /\ mainPc' = "exited"
    /\ exitStatus' = status

\* the first runCollection returned with an error: log.Fatalf
mainInitialFailed ==
    /\ mainPc = "initial"
    /\ pc = "ret"
    /\ cycleErr # None
    /\ logged' = << "Collection failed", cycleErr >>
    /\ Exit("1")
    /\ UNCHANGED << sideVars, once, targetDate, now, notified, sigPending, tickPending, cycles, pc,
                    target, cycleErr, storeVars, identVars, relayVars, procVars, kpiData,
                    file >>

\* the first runCollection returned nil and --once is set: main returns
mainOnce ==
    /\ mainPc = "initial"
    /\ pc = "ret"
    /\ cycleErr = None
    /\ once
    /\ logged' = << "Exiting after single run (--once flag)", None >>
    /\ Exit("0")
    /\ UNCHANGED << sideVars, once, targetDate, now, notified, sigPending, tickPending, cycles, pc,
                    target, cycleErr, storeVars, identVars, relayVars, procVars, kpiData,
                    file >>

\* the first runCollection returned nil without --once: ticker, signal.Notify
\* and the main loop
mainStartLoop ==
    /\ mainPc = "initial"
    /\ pc = "ret"
    /\ cycleErr = None
    /\ ~once
    /\ logged' = << "KPI service started", None >>
    /\ notified' = TRUE
    /\ mainPc' = "select"
    /\ pc' = "idle"
    /\ ResetLocals
    /\ UNCHANGED << sideVars, once, targetDate, now, exitStatus, sigPending, tickPending, cycles,
                    target, file >>

\* the argument the main loop passes to runCollection
ScheduledTarget == None

\* the cycle is handed to a goroutine and main is back at the select
RunCollectionDetached == mainPc' = "select"

\* runCollection is called in the case body: main is inside it until it
\* returns
RunCollectionCalled == mainPc' = "scheduled"

\* case <-ticker.C: a scheduled cycle starts
mainTick ==
    /\ mainPc = "select"
    /\ tickPending
    /\ cycles < MaxCycles
    /\ tickPending' = FALSE
    /\ cycles' = cycles + 1
    /\ logged' = << "Running scheduled KPI collection...", None >>
    /\ RunCollectionCalled
    /\ pc' = "messages"
    /\ target' = ScheduledTarget
    /\ UNCHANGED << sideVars, once, targetDate, now, exitStatus, notified, sigPending, cycleErr,
                    storeVars, identVars, relayVars, procVars, kpiData, file >>

\* a failed scheduled cycle handled as the first one is: log.Fatalf
ScheduledFailedFatal ==
    /\ logged' = << "Scheduled collection failed", cycleErr >>
    /\ Exit("1")

\* what the main loop does with a failed scheduled cycle: log it
ScheduledFailed ==
    /\ logged' = << "Scheduled collection failed", cycleErr >>
    /\ mainPc' = "select"
    /\ UNCHANGED exitStatus

\* the scheduled runCollection returned: log, back to the select
mainScheduledReturn ==
    /\ mainPc = "scheduled"
    /\ pc = "ret"
    /\ IF cycleErr # None
       THEN ScheduledFailed
       ELSE /\ logged' = << "Scheduled collection completed successfully", None >>
            /\ mainPc' = "select"
            /\ UNCHANGED exitStatus
    /\ pc' = "idle"
    /\ ResetLocals
    /\ UNCHANGED << sideVars, once, targetDate, now, notified, sigPending, tickPending, cycles,
                    target, file >>

\* case sig := <-sigChan: main returns
mainSignal ==
    /\ mainPc = "select"
    /\ sigPending
    /\ logged' = << "Received signal, shutting down gracefully...", None >>
    /\ Exit("0")
    /\ UNCHANGED << sideVars, once, targetDate, now, notified, sigPending, tickPending, cycles, pc,
                    target, cycleErr, storeVars, identVars, relayVars, procVars, kpiData,
                    file >>

(***************************************************************************)
(* The outside world.                                                      *)
(***************************************************************************)
\* the ticker fires; ticker.C holds one tick, a further one is dropped
Tick ==
    /\ mainPc \in {"select", "scheduled"}
    /\ ~tickPending
    /\ tickPending' = TRUE
    /\ UNCHANGED << sideVars, once, targetDate, now, mainPc, exitStatus, notified, sigPending,
                    cycles, logged, pc, target, cycleErr, storeVars, identVars, relayVars,
                    procVars, kpiData, file >>

\* SIGINT or SIGTERM: queued in sigChan once signal.Notify has been called,
\* the default action (the process dies at once) before
Signal ==
    /\ mainPc # "exited"
    /\ IF notified
       THEN /\ ~sigPending
            /\ sigPending' = TRUE
            /\ UNCHANGED << mainPc, exitStatus >>
       ELSE /\ Exit("signal")
            /\ UNCHANGED sigPending
    /\ UNCHANGED << sideVars, once, targetDate, now, notified, tickPending, cycles, logged, pc,
                    target, cycleErr, storeVars, identVars, relayVars, procVars, kpiData,
                    file >>

\* SIGKILL, or the machine stops: the process dies wherever it is
Kill ==
    /\ mainPc # "exited"
    /\ Exit("killed")
    /\ UNCHANGED << sideVars, once, targetDate, now, notified, sigPending, tickPending, cycles,
                    logged, pc, target, cycleErr, storeVars, identVars, relayVars,
                    procVars, kpiData, file >>

\* time passes
ClockAdvance ==
    /\ mainPc # "exited"
    /\ now < ClockEnd
    /\ now' = now + 1
    /\ UNCHANGED << sideVars, mainVars, pc, target, cycleErr, storeVars, identVars, relayVars,
                    procVars, kpiData, file >>

Next ==
    \/ collectMessagesPerDay
    \/ collectReviewsPerDay
    \/ collectThreadVotesPerDay
    \/ collectTimeToFirstReplyPerDay
    \/ StoreCtxExpire
    \/ getNpubsFromUsers
    \/ queryRelaysForEvents
    \/ NostrCtxExpire
    \/ RelayConnect
    \/ QuerySync
    \/ queryRelays
    \/ processEventsInit
    \/ processEventsStep
    \/ processEvents
    \/ CollectAllData
    \/ MkdirAll
    \/ WriteFileOpen
    \/ WriteFileWrite
    \/ mainInitialFailed
    \/ mainOnce
    \/ mainStartLoop
    \/ mainTick
    \/ mainScheduledReturn
    \/ mainSignal
    \/ Tick
    \/ Signal
    \/ Kill
    \/ ClockAdvance

Spec == Init /\ [][Next]_vars

(***************************************************************************)
(* The event bucketing on its own: processEvents applied to bounded        *)
(* inputs, for reference dates across month ends, a leap day, a year end   *)
(* and a century year.                                                     *)
(***************************************************************************)
\* first and last day number of each stretch of reference dates
DateStretches ==
    { << DaysFromCivil(2023, 2, 26), DaysFromCivil(2023, 3, 3) >>,
      << DaysFromCivil(2023, 12, 29), DaysFromCivil(2024, 1, 8) >>,
      << DaysFromCivil(2024, 2, 26), DaysFromCivil(2024, 3, 9) >>,
      << DaysFromCivil(2100, 2, 27), DaysFromCivil(2100, 3, 2) >> }

ReferenceDays == UNION { s[1]..s[2] : s \in DateStretches }

\* an event of a kind the filter does not ask for
StrayEvent == Event("pub3", 7, ParseDate(2024, 3, 2) + 1, "d")

\* what processEvents is applied to: up to two events, repeats included
EventPool == {Universe[i] : i \in 1..Len(Universe)} \cup {StrayEvent}
EventInputs ==
    {<< >>} \cup {<< a >> : a \in EventPool} \cup {<< a, b >> : a, b \in EventPool}

InitEvents ==
    /\ once = TRUE
    /\ users = << Field(AliceNpub), Field(BobNpub) >>
    /\ store = DefaultStore
    /\ \/ /\ \E d \in ReferenceDays : targetDate = Some(d * UnitsPerDay)
          /\ now = ClockStart
       \/ /\ targetDate = None
          /\ \E d \in ReferenceDays : \E u \in 0..(UnitsPerDay - 1) : now = d * UnitsPerDay + u
    /\ mainPc = "initial"
    /\ exitStatus = "running"
    /\ notified = FALSE
    /\ sigPending = FALSE
    /\ tickPending = FALSE
    /\ cycles = 1
    /\ logged = << "Running KPI collection...", None >>
    /\ pc = "bucket"
    /\ target = targetDate
    /\ cycleErr = FreshCycle.cycleErr
    /\ storeExpired = FreshCycle.storeExpired
    /\ nostrExpired = FreshCycle.nostrExpired
    /\ tr = [f \in 1..Len(Families) |-> StoreAnswer(f)]
    /\ queried = [f \in 1..Len(Families) |-> "ok"]
    /\ npubs = NpubsOf(users)
    /\ pubkeys = PubkeysOf(npubs)
    /\ validNpubs = Len(pubkeys)
    /\ filter = Some(FilterOf(pubkeys))
    /\ relayIdx = Len(Relays) + 1
    /\ conns = {}
    /\ outcomes = << >>
    /\ allEvents \in EventInputs
    /\ baseDate = FreshCycle.baseDate
    /\ notesByDay = FreshCycle.notesByDay
    /\ activeAuthors = FreshCycle.activeAuthors
    /\ evIdx = FreshCycle.evIdx
    /\ nd = FreshCycle.nd
    /\ kpiData = FreshCycle.kpiData
    /\ file = NoFile
    /\ message = None
    /\ nsec = ""
    /\ post = IdlePost
    /\ conf = DefaultConf

NextEvents ==
    \/ processEventsInit
    \/ processEventsStep
    \/ processEvents

SpecEvents == InitEvents /\ [][NextEvents]_vars

(***************************************************************************)
(* Properties.                                                             *)
(***************************************************************************)
Range(seq) == {seq[i] : i \in 1..Len(seq)}

\* the relay series of the cycle's NostrootsData
Notes == nd.NotesByKindPerDay

\* C1: when relays return the same event (same author, kind, created-at and
\* content) more than once, the per-day count of its kind counts it once:
\* every counter equals the number of distinct events of that day and kind.
C1_DuplicateCountedOnce ==
    (pc = "merge" /\ baseDate # None) =>
        \A j \in 1..Len(Notes) : \A k \in KindKeys :
            Notes[j].Kinds[k] =
                Cardinality({e \in Range(allEvents) :
                                /\ Format(e.CreatedAt) = Notes[j].Date
                                /\ Sprintf(e.Kind) = k})

\* the events of the relay attempts that succeeded, in relay order
RECURSIVE Gathered(_)
Gathered(outs) ==
    IF outs = << >> THEN << >>
    ELSE (IF Head(outs).status = "ok" THEN Head(outs).events ELSE << >>)
             \o Gathered(Tail(outs))

\* C2: in queryRelays a failing relay gives no event and does not stop the
\* fan-out: when queryRelays returns every configured relay has been
\* attempted in order, the merged result is exactly the events of the relays
\* that succeeded, and no error is returned.
C2_FailedRelayIsolated ==
    /\ pc \in {"connect", "query"} =>
          /\ cycleErr = None
          /\ relayIdx = Len(outcomes) + 1
          /\ allEvents = Gathered(outcomes)
    /\ pc = "bucket" =>
          /\ cycleErr = None
          /\ Len(outcomes) = Len(Relays)
          /\ \A i \in 1..Len(outcomes) : outcomes[i].relay = i
          /\ allEvents = Gathered(outcomes)

\* queryRelays has returned after the first relay failed to connect and the
\* second one gave events
C2_Witness ==
    /\ pc = "bucket"
    /\ outcomes[1].status = "connect failed"
    /\ outcomes[2].status = "ok"
    /\ outcomes[2].events # << >>
    /\ allEvents = outcomes[2].events

\* every configured relay was tried and none could be connected to
NoRelayReached ==
    /\ Len(outcomes) = Len(Relays)
    /\ \A i \in 1..Len(outcomes) : outcomes[i].status = "connect failed"

\* C3: CollectNostrootsData fails exactly when identity resolution failed or
\* no configured relay could be reached, and succeeds in every other case.
C3_FailsExactlyWhenNoRelay ==
    /\ pc = "merge" => ~NoRelayReached
    /\ (pc = "ret" /\ cycleErr # None /\ cycleErr[1][1] = "failed to collect Nostroots data") =>
          (cycleErr[1][2] = "failed to get npubs" \/ NoRelayReached)

\* C4: the snapshot of every successful cycle has a full relay series: one
\* record for each of the 7 day buckets, each with a count for every one of
\* the 7 kinds, whatever the relays did and whatever the identity set was.
C4_FullRelaySeries ==
    (pc = "ret" /\ cycleErr = None) =>
        LET series == kpiData[1].Nostroots.NotesByKindPerDay
        IN  /\ Len(series) = 7
            /\ \A j \in 1..Len(series) : DOMAIN series[j].Kinds = KindKeys

\* C5: the output path never holds an empty, truncated or partly written
\* document: whenever the file exists it is a complete snapshot.
C5_FileAlwaysComplete == file.exists => file.len = NumChunks

\* C6: a failed store query ends the cycle with an error that names the
\* metric family and is wrapped by CollectAllData; that cycle builds and
\* writes no snapshot, and a snapshot is only ever built from four queries
\* that succeeded.
C6_StoreFailureAborts ==
    /\ \A f \in 1..Len(Families) :
          queried[f] = "failed" =>
              /\ pc = "ret"
              /\ cycleErr # None
              /\ cycleErr[1][1] = "failed to collect Trustroots data"
              /\ cycleErr[1][2] =
                    << "failed to collect messages", "failed to collect reviews",
                       "failed to collect thread votes", "failed to collect reply times" >>[f]
              /\ kpiData = None
              /\ ~(file.exists /\ file.doc.cycle = cycles)
    /\ kpiData # None =>
          \A f \in 1..Len(Families) :
              /\ queried[f] = "ok"
              /\ \E c \in ClockStart..now : kpiData[1].Trustroots[f] = StoreAnswerAt(f, c)

\* the thread-votes query failed after the first two queries succeeded
C6_Witness ==
    /\ queried = << "ok", "ok", "failed", "pending" >>
    /\ pc = "ret"
    /\ cycleErr[1][2] = "failed to collect thread votes"

\* C7: a cycle in which a collection deadline expired before the work was
\* done is aborted and reported as a failure; it publishes no snapshot.
C7_DeadlineAborts ==
    (storeExpired \/ nostrExpired) =>
        /\ pc # "write"
        /\ ~(pc = "ret" /\ cycleErr = None)

C8_Step ==
    (mainPc = "scheduled" /\ pc = "ret" /\ cycleErr # None /\ mainPc' # "scheduled"
     /\ exitStatus' # "killed") =>
        /\ mainPc' = "select"
        /\ exitStatus' = "running"
        /\ logged' = << "Scheduled collection failed", cycleErr >>

IsLeap(y) == (y % 4 = 0 /\ y % 100 # 0) \/ y % 400 = 0
DaysInMonth(y, m) ==
    CASE m \in {4, 6, 9, 11} -> 30
      [] m = 2 -> IF IsLeap(y) THEN 29 ELSE 28
      [] OTHER -> 31
NextDay(c) ==
    IF c[3] < DaysInMonth(c[1], c[2]) THEN << c[1], c[2], c[3] + 1 >>
    ELSE IF c[2] < 12 THEN << c[1], c[2] + 1, 1 >>
    ELSE << c[1] + 1, 1, 1 >>

\* C9: for every reference date D the day buckets of processEvents are the 7
\* consecutive calendar days D-6 .. D: the last one is D, each one is the
\* day after the one before it, in strictly ascending order.
C9_SevenConsecutiveDays ==
    (pc = "merge" /\ baseDate # None) =>
        /\ target # None => baseDate = target
        /\ Len(Notes) = 7
        /\ Notes[7].Date = Format(baseDate[1])
        /\ \A j \in 1..6 :
              /\ Notes[j + 1].Date = NextDay(Notes[j].Date)
              /\ DateLess(Notes[j].Date, Notes[j + 1].Date)

\* processEvents has run for 2024-03-03: the buckets start on 2024-02-26 and
\* pass the leap day
C9_Witness ==
    /\ pc = "merge"
    /\ baseDate = Some(ParseDate(2024, 3, 3))
    /\ Notes[1].Date = << 2024, 2, 26 >>
    /\ Notes[4].Date = << 2024, 2, 29 >>
    /\ Notes[7].Date = << 2024, 3, 3 >>

\* C10: one iteration of the event loop changes no counter when the event's
\* day is outside the 7 buckets or its kind is not one of the 7 kinds, and
\* otherwise adds one to the counter of the event's day and kind and leaves
\* every other counter as it was.
C10_OnlyOwnCounter ==
    [][ (pc = "process" /\ evIdx' = evIdx + 1) =>
          LET e == allEvents[evIdx]
              eday == e.CreatedAt \div UnitsPerDay
              bday == baseDate[1] \div UnitsPerDay
              counted == /\ bday - 6 <= eday
                         /\ eday <= bday
                         /\ e.Kind \in FilterKinds
          IN  /\ DOMAIN notesByDay' = DOMAIN notesByDay
              /\ \A d \in DOMAIN notesByDay :
                    /\ DOMAIN notesByDay'[d] = KindKeys
                    /\ \A k \in KindKeys :
                          notesByDay'[d][k] =
                              notesByDay[d][k]
                              + (IF counted /\ d = CivilFromDays(eday) /\ k = Sprintf(e.Kind)
                                 THEN 1 ELSE 0) ]_vars

\* the loop has passed an in-window event of kind 7, which changed nothing,
\* and an in-window event of kind 1, which was counted on its day
C10_Witness ==
    /\ pc = "process"
    /\ evIdx = 3
    /\ allEvents = << StrayEvent, Universe[1] >>
    /\ Format(StrayEvent.CreatedAt) \in DOMAIN notesByDay
    /\ notesByDay[<< 2024, 3, 2 >>] = [ZeroKinds EXCEPT ![<< 1 >>] = 1]

\* C11: the active-poster count is the number of distinct author keys among
\* the events the relays returned, however many events an author has and
\* however many relays returned the same event.
C11_DistinctAuthors ==
    (pc = "merge" /\ baseDate # None) =>
        /\ nd.ActivePosters = Cardinality({e.PubKey : e \in Range(allEvents)})
        /\ nd.ActivePosters <= Len(allEvents)

\* both relays returned the same single event of one author, and the count
\* is 1
C11_Witness ==
    /\ pc = "merge"
    /\ Len(outcomes) = 2
    /\ outcomes[1].events = << Universe[1] >>
    /\ outcomes[2].events = << Universe[1] >>
    /\ allEvents = << Universe[1], Universe[1] >>
    /\ nd.ActivePosters = 1

\* C12: only authors with at least one event dated inside the 7 day buckets
\* D-6 .. D are counted as active posters.
C12_WindowedPosters ==
    (pc = "merge" /\ baseDate # None) =>
        nd.ActivePosters =
            Cardinality({e.PubKey : e \in {x \in Range(allEvents) :
                            /\ baseDate[1] \div UnitsPerDay - 6 <= x.CreatedAt \div UnitsPerDay
                            /\ x.CreatedAt \div UnitsPerDay <= baseDate[1] \div UnitsPerDay}})

(***************************************************************************)
(* The identity conversion on its own: getNpubsFromUsers and the           *)
(* conversion loop of queryRelaysForEvents applied to bounded collections  *)
(* of user records.                                                        *)
(***************************************************************************)
\* the nostrNpub fields a user record can have
FieldPool ==
    { NoField, Field(<< >>), Field(Npub1), Field(NotARealKey), Field(BrokenNpub),
      Field(AliceNpub), Field(BobNpub) }

\* the sequences of at most n elements of P
RECURSIVE SeqsUpTo(_, _)
SeqsUpTo(P, n) ==
    IF n = 0 THEN {<< >>}
    ELSE LET shorter == SeqsUpTo(P, n - 1)
         IN  shorter \cup {Append(q, x) : q \in {y \in shorter : Len(y) = n - 1}, x \in P}

\* the collections of at most n user records
UserInputs(n) == SeqsUpTo(FieldPool, n)

InitIdent ==
    /\ once = TRUE
    /\ targetDate \in {None, Some(DateFlag)}
    /\ now = ClockStart
    /\ users \in UserInputs(MaxUsers)
    /\ store = DefaultStore
    /\ message = None
    /\ nsec = ""
    /\ post = IdlePost
    /\ conf = DefaultConf
    /\ mainPc = "initial"
    /\ exitStatus = "running"
    /\ notified = FALSE
    /\ sigPending = FALSE
    /\ tickPending = FALSE
    /\ cycles = 1
    /\ logged = << "Running KPI collection...", None >>
    /\ pc = "npubs"
    /\ target = targetDate
    /\ cycleErr = FreshCycle.cycleErr
    /\ storeExpired = FreshCycle.storeExpired
    /\ nostrExpired = FreshCycle.nostrExpired
    /\ tr = [f \in 1..Len(Families) |-> StoreAnswer(f)]
    /\ queried = [f \in 1..Len(Families) |-> "ok"]
    /\ npubs = FreshCycle.npubs
    /\ pubkeys = FreshCycle.pubkeys
    /\ validNpubs = FreshCycle.validNpubs
    /\ filter = FreshCycle.filter
    /\ relayIdx = FreshCycle.relayIdx
    /\ conns = FreshCycle.conns
    /\ outcomes = FreshCycle.outcomes
    /\ allEvents = FreshCycle.allEvents
    /\ baseDate = FreshCycle.baseDate
    /\ notesByDay = FreshCycle.notesByDay
    /\ activeAuthors = FreshCycle.activeAuthors
    /\ evIdx = FreshCycle.evIdx
    /\ nd = FreshCycle.nd
    /\ kpiData = FreshCycle.kpiData
    /\ file = NoFile

NextIdent ==
    \/ getNpubsFromUsers
    \/ queryRelaysForEvents

SpecIdent == InitIdent /\ [][NextIdent]_vars

\* the records of the users collection whose key field is present and not ""
KeyFieldSet == SelectSeq(users, LAMBDA u : u.set /\ u.key # << >>)

\* the records whose key has the prefix npub1 and decodes as an npub
Parseable ==
    SelectSeq(users, LAMBDA u : /\ u.set
                                /\ Len(u.key) >= 5
                                /\ SubSeq(u.key, 1, 5) = Npub1
                                /\ ~Decode(u.key).err
                                /\ Decode(u.key).prefix = "npub")

\* C13: the authors sent to the relays are exactly the decoded keys of the
\* records whose key has the prefix npub1 and decodes, one entry per record
\* and in record order; records with an empty, absent or malformed key are in
\* neither the authors nor the parseable-key count and set no error; the
\* parseable-key count is the number of authors and at most the number of
\* records with a non-empty key field.
C13_AuthorsAreDecodedKeys ==
    /\ pc \in {"merge", "connect"} =>
          /\ cycleErr = None
          /\ validNpubs = Len(Parseable)
          /\ validNpubs <= Len(KeyFieldSet)
          /\ pubkeys = [i \in 1..Len(Parseable) |-> Decode(Parseable[i].key).value]
    /\ pc = "connect" =>
          /\ filter # None
          /\ filter[1].Authors = pubkeys
          /\ Len(filter[1].Authors) = validNpubs
    /\ pc = "merge" =>
          /\ filter = None
          /\ Len(Parseable) = 0
          /\ nd.UsersWithNpubs = validNpubs
    /\ (pc = "ret" /\ cycleErr # None) => cycleErr[1][3] = "find failed"

\* the collection holds "not-a-real-key", a key that has the prefix but does
\* not decode, and one good key: the filter has the one decoded author
C13_Witness ==
    /\ pc = "connect"
    /\ users = << Field(NotARealKey), Field(BrokenNpub), Field(AliceNpub) >>
    /\ validNpubs = 1
    /\ filter[1].Authors = << "pub1" >>
    /\ cycleErr = None

(***************************************************************************)
(* The store queries on their own: CollectTrustrootsData applied to        *)
(* bounded collections, with and without a target date, at two wall        *)
(* clocks.                                                                 *)
(***************************************************************************)
\* the wall clocks a store query runs at
StoreClocks == {ParseDate(2024, 3, 5) + 1, ParseDate(2024, 3, 6)}

\* creation instants of documents: before, at and after the cutoffs, and
\* after the target date
DocInstants == {ParseDate(2024, 2, 25), ParseDate(2024, 3, 2) + 1, ParseDate(2024, 3, 4)}
MessageInstants == DocInstants \cup {ParseDate(2024, 2, 24) + 1, ParseDate(2024, 2, 27)}

MessagePool == {Message(t) : t \in MessageInstants}
ExperiencePool == {Experience(t, r) : t \in DocInstants, r \in {"yes", "no", "maybe"}}
ThreadPool == {ReferenceThread(t, r) : t \in DocInstants, r \in {"yes", "no", "flag"}}
StatPool == {MessageStat(t, r) : t \in DocInstants, r \in {None, Some(100), Some(301)}}

\* the stores the queries are applied to: one collection is any sequence of
\* at most MaxDocs documents, the others are as in DefaultStore
StoreInputs ==
    {[DefaultStore EXCEPT !.messages = q] : q \in SeqsUpTo(MessagePool, MaxDocs)}
    \cup {[DefaultStore EXCEPT !.experiences = q] : q \in SeqsUpTo(ExperiencePool, MaxDocs)}
    \cup {[DefaultStore EXCEPT !.referencethreads = q] : q \in SeqsUpTo(ThreadPool, MaxDocs)}
    \cup {[DefaultStore EXCEPT !.messagestats = q] : q \in SeqsUpTo(StatPool, MaxDocs)}

InitStore ==
    /\ once = TRUE
    /\ targetDate \in {None, Some(DateFlag)}
    /\ now \in StoreClocks
    /\ users = << >>
    /\ store \in StoreInputs
    /\ message = None
    /\ nsec = ""
    /\ post = IdlePost
    /\ conf = DefaultConf
    /\ mainPc = "initial"
    /\ exitStatus = "running"
    /\ notified = FALSE
    /\ sigPending = FALSE
    /\ tickPending = FALSE
    /\ cycles = 1
    /\ logged = << "Running KPI collection...", None >>
    /\ pc = "messages"
    /\ target = targetDate
    /\ cycleErr = FreshCycle.cycleErr
    /\ storeExpired = FreshCycle.storeExpired
    /\ nostrExpired = FreshCycle.nostrExpired
    /\ tr = FreshCycle.tr
    /\ queried = FreshCycle.queried
    /\ npubs = FreshCycle.npubs
    /\ pubkeys = FreshCycle.pubkeys
    /\ validNpubs = FreshCycle.validNpubs
    /\ filter = FreshCycle.filter
    /\ relayIdx = FreshCycle.relayIdx
    /\ conns = FreshCycle.conns
    /\ outcomes = FreshCycle.outcomes
    /\ allEvents = FreshCycle.allEvents
    /\ baseDate = FreshCycle.baseDate
    /\ notesByDay = FreshCycle.notesByDay
    /\ activeAuthors = FreshCycle.activeAuthors
    /\ evIdx = FreshCycle.evIdx
    /\ nd = FreshCycle.nd
    /\ kpiData = FreshCycle.kpiData
    /\ file = NoFile

NextStore ==
    \/ collectMessagesPerDay
    \/ collectReviewsPerDay
    \/ collectThreadVotesPerDay
    \/ collectTimeToFirstReplyPerDay

SpecStore == InitStore /\ [][NextStore]_vars

\* the collection the query of family f reads
DocsOf(f) ==
    CASE f = 1 -> store.messages
      [] f = 2 -> store.experiences
      [] f = 3 -> store.referencethreads
      [] f = 4 -> store.messagestats

\* the day number a document of family f is dated
DocDay(f, doc) ==
    (IF f = 4 THEN doc.firstMessageCreated ELSE doc.created) \div UnitsPerDay

\* the day number of a formatted date
DayOf(date) == DaysFromCivil(date[1], date[2], date[3])

\* the day number of the cycle's reference date
ReferenceDay == (IF target = None THEN now ELSE target[1]) \div UnitsPerDay

\* the documents of family f of day number d whose discriminator is v
OnDay(f, d, v) ==
    {i \in DOMAIN DocsOf(f) :
        /\ DocDay(f, DocsOf(f)[i]) = d
        /\ (IF f = 2 THEN DocsOf(f)[i].recommend ELSE DocsOf(f)[i].reference) = v}

\* the store without the reviews whose recommend value is neither yes nor no
WithoutOtherReviews ==
    [store EXCEPT !.experiences = SelectSeq(@, LAMBDA x : x.recommend \in {"yes", "no"})]

\* C14: a review whose recommend value is neither "yes" nor "no" is in
\* neither tally of its day: each review record has the number of "yes"
\* reviews of its day as positive and of "no" reviews as negative, and the
\* list is the one a store without those reviews gives; likewise each vote
\* record has the numbers of "yes" and of "no" references of its day.
C14_OtherValuesUncounted ==
    /\ queried[2] = "ok" =>
          /\ \A j \in 1..Len(tr[2]) :
                /\ tr[2][j].Positive = Cardinality(OnDay(2, DayOf(tr[2][j].Date), "yes"))
                /\ tr[2][j].Negative = Cardinality(OnDay(2, DayOf(tr[2][j].Date), "no"))
          /\ tr[2] = StoreRows(2, WithoutOtherReviews, StoreBase(target, now))
    /\ queried[3] = "ok" =>
          \A j \in 1..Len(tr[3]) :
              /\ tr[3][j].Upvotes = Cardinality(OnDay(3, DayOf(tr[3][j].Date), "yes"))
              /\ tr[3][j].Downvotes = Cardinality(OnDay(3, DayOf(tr[3][j].Date), "no"))

\* a "yes" and a "maybe" review of 2024-03-02 gave one positive and no
\* negative review, and a "no" and a "flag" vote of 2024-03-01 gave one
\* downvote and no upvote
C14_Witness ==
    /\ store.experiences = << Experience(ParseDate(2024, 3, 2) + 1, "yes"),
                              Experience(ParseDate(2024, 3, 2) + 1, "maybe") >>
    /\ queried[2] = "ok"
    /\ tr[2] = << [Date |-> << 2024, 3, 2 >>, Positive |-> 1, Negative |-> 0] >>
    /\ queried[3] = "ok"
    /\ tr[3] = << [Date |-> << 2024, 3, 1 >>, Upvotes |-> 0, Downvotes |-> 1] >>
    /\ cycleErr = None

\* the documents the query of family f matches: dated on or after the day
\* seven days before the reference date and, for reviews and reply times,
\* with the field value the $match asks for
Matching(f) ==
    {i \in DOMAIN DocsOf(f) :
        /\ DocDay(f, DocsOf(f)[i]) >= ReferenceDay - 7
        /\ f = 2 => DocsOf(f)[i].recommend \in {"yes", "no"}
        /\ f = 4 => DocsOf(f)[i].timeToFirstReply # None}

\* C15: each relational list is in strictly ascending day order (so it has
\* at most one record per day), each of its records is of a day that has a
\* document the query matches, and a query that matches no document returns
\* without an error and its list is empty.
C15_AscendingNoZeroFill ==
    \A f \in 1..Len(Families) :
        queried[f] = "ok" =>
            /\ \A j \in 1..(Len(tr[f]) - 1) : DateLess(tr[f][j].Date, tr[f][j + 1].Date)
            /\ \A j \in 1..Len(tr[f]) :
                  \E i \in Matching(f) : DocDay(f, DocsOf(f)[i]) = DayOf(tr[f][j].Date)
            /\ Matching(f) = {} => tr[f] = << >>

\* the messages of two days gave two records in day order, and reply-time
\* statistics that the query does not match gave the empty list
C15_Witness ==
    /\ Len(tr[1]) = 2
    /\ tr[1][1] = [Date |-> << 2024, 3, 1 >>, Count |-> 1]
    /\ tr[1][2] = [Date |-> << 2024, 3, 2 >>, Count |-> 2]
    /\ store.messagestats # << >>
    /\ queried[4] = "ok"
    /\ tr[4] = << >>
    /\ cycleErr = None

\* C16: every day key of the four relational lists is one of the cycle's 7
\* day buckets D-6 .. D.
C16_RelationalDaysInBuckets ==
    \A f \in 1..Len(Families) :
        queried[f] = "ok" =>
            \A j \in 1..Len(tr[f]) :
                /\ ReferenceDay - 6 <= DayOf(tr[f][j].Date)
                /\ DayOf(tr[f][j].Date) <= ReferenceDay

\* C17: with an explicit reference date the relational lists of a cycle are
\* the lists a run at any other wall clock gets from the same store.
C17_SameDateSameLists ==
    \A f \in 1..Len(Families) :
        (target # None /\ queried[f] = "ok") =>
            \A c \in StoreClocks \cup {ClockStart, ClockEnd} : tr[f] = StoreAnswerAt(f, c)

\* a cycle for 2024-03-03 that ran on 2024-03-06 has counted the message of
\* 2024-02-27, which a cutoff taken from either wall clock treats differently
C17_Witness ==
    /\ target = Some(DateFlag)
    /\ now = ParseDate(2024, 3, 6)
    /\ store.messages = << Message(ParseDate(2024, 2, 27)), Message(ParseDate(2024, 2, 25)) >>
    /\ \A f \in 1..Len(Families) : queried[f] = "ok"
    /\ tr[1] = << [Date |-> << 2024, 2, 25 >>, Count |-> 1],
                  [Date |-> << 2024, 2, 27 >>, Count |-> 1] >>

\* the running cycle failed in one of the two collectors
CollectionFailed ==
    /\ cycleErr # None
    /\ cycleErr[1][1] \in {"failed to collect Trustroots data", "failed to collect Nostroots data"}

\* a step that changes the output file is a step of os.WriteFile in a cycle
\* that has built its snapshot without error, and writes that snapshot; the
\* open of os.WriteFile is entered from SaveToFile's start only
C18_Step ==
    /\ file' # file =>
          /\ pc \in {"open", "write"}
          /\ cycleErr = None
          /\ kpiData # None
          /\ \A f \in 1..Len(Families) : queried[f] = "ok"
          /\ file'.doc = Doc(cycles, kpiData[1].Generated)
          /\ pc = "open" => file' = Opened(Doc(cycles, kpiData[1].Generated))
          /\ pc = "write" => (file'.doc = file.doc /\ file'.len = file.len + 1)
    /\ (pc' = "open" /\ pc # "open") => pc = "mkdir"
    /\ (pc' = "mkdir" /\ pc # "mkdir") => (pc = "merge" /\ cycleErr = None)

\* C18: a cycle that failed in collection has built no snapshot and has not
\* touched the output file, no step of it changes the file, and a cycle that
\* succeeded has written the file in one os.WriteFile call, which leaves the
\* complete snapshot of that cycle.
C18_FailedCycleWritesNothing ==
    /\ [](CollectionFailed =>
            /\ pc = "ret"
            /\ kpiData = None
            /\ ~(file.exists /\ file.doc.cycle = cycles))
    /\ []((file.exists /\ file.doc.cycle = cycles) => pc \in {"write", "ret", "idle"})
    /\ []((pc = "ret" /\ cycleErr = None) =>
            file = [exists |-> TRUE, doc |-> Doc(cycles, kpiData[1].Generated),
                    len |-> NumChunks])
    /\ [][C18_Step]_vars

\* the second cycle failed in identity resolution and the file is still the
\* complete snapshot the first cycle wrote
C18_Witness ==
    /\ cycles = 2
    /\ pc = "ret"
    /\ CollectionFailed
    /\ cycleErr[1][2] = "failed to get npubs"
    /\ file.exists
    /\ file.doc.cycle = 1
    /\ file.len = NumChunks

\* C19: in run-forever mode a delivered SIGINT or SIGTERM never ends the
\* process inside a cycle, and once a signal is waiting no further cycle is
\* started.
C19_SignalCompletesCycle ==
    /\ []((~once /\ exitStatus = "signal") => pc \in {"ret", "idle"})
    /\ [][(~once /\ sigPending) => ~(mainPc = "select" /\ mainPc' = "scheduled")]_vars

(***************************************************************************)
(* formatStatsMessage of the NostrPoster applied to snapshots the          *)
(* collectors can build.                                                   *)
(***************************************************************************)
\* the day of the snapshot itself
SameDay(generated) == Format(generated)

\* yesterday := data.Generated.AddDate(0, 0, -1).Format("2006-01-02")
Yesterday(generated) == Format(AddDate(generated, 0 - 1))

\* the index of the first record of list dated d, 0 when there is none: the
\* loops with "if x.Date == yesterday { ...; break }"
FirstOn(list, d) ==
    LET at == {j \in 1..Len(list) : list[j].Date = d}
    IN  IF at = {} THEN 0 ELSE CHOOSE j \in at : \A k \in at : j <= k

\* the text of fmt.Sprintf: the pieces of the format and the %d values
StatsText(v) ==
    << "Yesterday on Trustroots: ", Sprintf(v[1]), " messages, ", Sprintf(v[2]),
       " positive reviews, ", Sprintf(v[3]), " negative reviews, ", Sprintf(v[4]),
       " upvotes, ", Sprintf(v[5]), " downvotes\n\nNostroots: ", Sprintf(v[6]),
       " npub users, ", Sprintf(v[7]), " active posters, ", Sprintf(v[8]),
       " notes\n\nMore #stats at https://kpi.trustroots.org/" >>

\* the message formatStatsMessage returns for a snapshot
StatsMessageOf(data) ==
    LET yesterday == Yesterday(data.Generated)
        msg == FirstOn(data.Trustroots[1], yesterday)
        review == FirstOn(data.Trustroots[2], yesterday)
        vote == FirstOn(data.Trustroots[3], yesterday)
        notes == FirstOn(data.Nostroots.NotesByKindPerDay, yesterday)
        kinds == data.Nostroots.NotesByKindPerDay[notes].Kinds
    IN  StatsText(<< IF msg = 0 THEN 0 ELSE data.Trustroots[1][msg].Count,
                     IF review = 0 THEN 0 ELSE data.Trustroots[2][review].Positive,
                     IF review = 0 THEN 0 ELSE data.Trustroots[2][review].Negative,
                     IF vote = 0 THEN 0 ELSE data.Trustroots[3][vote].Upvotes,
                     IF vote = 0 THEN 0 ELSE data.Trustroots[3][vote].Downvotes,
                     data.Nostroots.UsersWithNpubs,
                     data.Nostroots.ActivePosters,
                     IF notes = 0 THEN 0 ELSE SumOver(kinds, DOMAIN kinds) >>)

\* np.formatStatsMessage(data) on the snapshot of the cycle
formatStatsMessage ==
    /\ kpiData # None
    /\ message = None
    /\ message' = Some(StatsMessageOf(kpiData[1]))
    /\ UNCHANGED << users, store, nsec, post, conf, mainVars, now, pc, target, cycleErr, storeVars, identVars,
                    relayVars, procVars, kpiData, file >>

\* notesByDay after the event loop of processEvents over events
RECURSIVE NotesAfter(_, _)
NotesAfter(notes, events) ==
    IF events = << >> THEN notes
    ELSE NotesAfter(CountEvent(notes, Head(events)), Tail(events))

\* the NostrootsData of a cycle whose relays returned events
NostrootsOf(base, events) ==
    [UsersWithNpubs |-> 2,
     ActivePosters |-> ActivePostersOf({events[i].PubKey : i \in 1..Len(events)}, events),
     NotesByKindPerDay |-> DailyNotesOf(base, NotesAfter(InitialNotes(base), events))]

\* the snapshot of a cycle for the reference instant g on the store s
SnapshotOf(g, s, nostroots) ==
    [Generated |-> g,
     Trustroots |-> [f \in 1..Len(Families) |-> StoreRows(f, s, g)],
     Nostroots |-> nostroots]

\* the reference instants of the snapshots: yesterday is a day with
\* documents, the leap day, and a day of the month before
GeneratedInstants ==
    { ParseDate(2024, 3, 3), ParseDate(2024, 3, 5) + 1, ParseDate(2024, 3, 1),
      ParseDate(2024, 2, 26) + 1 }

\* the snapshots formatStatsMessage is applied to
Snapshots ==
    {SnapshotOf(g, s, NostrootsOf(g, << >>)) : g \in GeneratedInstants, s \in StoreInputs}
    \cup {SnapshotOf(g, DefaultStore, NostrootsOf(g, e)) :
            g \in GeneratedInstants, e \in EventInputs}
    \cup {SnapshotOf(g, DefaultStore, ZeroNostroots) : g \in GeneratedInstants}

InitStats ==
    /\ once = TRUE
    /\ kpiData \in {Some(d) : d \in Snapshots}
    /\ targetDate = Some(kpiData[1].Generated)
    /\ now = ClockEnd
    /\ users = << Field(AliceNpub), Field(BobNpub) >>
    /\ store = DefaultStore
    /\ message = None
    /\ nsec = ""
    /\ post = IdlePost
    /\ conf = DefaultConf
    /\ mainPc = "initial"
    /\ exitStatus = "running"
    /\ notified = FALSE
    /\ sigPending = FALSE
    /\ tickPending = FALSE
    /\ cycles = 1
    /\ logged = << "Running KPI collection...", None >>
    /\ pc = "ret"
    /\ target = targetDate
    /\ cycleErr = None
    /\ storeExpired = FALSE
    /\ nostrExpired = FALSE
    /\ tr = kpiData[1].Trustroots
    /\ queried = [f \in 1..Len(Families) |-> "ok"]
    /\ npubs = NpubsOf(users)
    /\ pubkeys = PubkeysOf(npubs)
    /\ validNpubs = Len(pubkeys)
    /\ filter = FreshCycle.filter
    /\ relayIdx = FreshCycle.relayIdx
    /\ conns = {}
    /\ outcomes = << >>
    /\ allEvents = << >>
    /\ baseDate = FreshCycle.baseDate
    /\ notesByDay = FreshCycle.notesByDay
    /\ activeAuthors = FreshCycle.activeAuthors
    /\ evIdx = FreshCycle.evIdx
    /\ nd = kpiData[1].Nostroots
    /\ file = [exists |-> TRUE, doc |-> Doc(1, kpiData[1].Generated), len |-> NumChunks]

NextStats == formatStatsMessage

SpecStats == InitStats /\ [][NextStats]_vars

\* the number a sequence of decimal digits stands for
RECURSIVE NumberOf(_)
NumberOf(digits) ==
    IF digits = << >> THEN 0
    ELSE 10 * NumberOf(SubSeq(digits, 1, Len(digits) - 1)) + digits[Len(digits)]

\* the day number of the day before the snapshot was generated
StatsDay == kpiData[1].Generated \div UnitsPerDay - 1

\* the records of a list that are dated on the day before the generation
RecordsOn(list) == {j \in 1..Len(list) : DayOf(list[j].Date) = StatsDay}

\* the sum of the seven kind counts of one relay record
NotesOf(r) ==
    r.Kinds[<< 0 >>] + r.Kinds[<< 1 >>] + r.Kinds[<< 4 >>] + r.Kinds[<< 3, 0, 0, 2, 3 >>]
    + r.Kinds[<< 3, 9, 7 >>] + r.Kinds[<< 3, 0, 3, 9, 8 >>] + r.Kinds[<< 3, 0, 3, 9, 9 >>]

C23_Step ==
    /\ cycles' # cycles =>
          /\ mainPc = "select"
          /\ pc = "idle"
          /\ cycles' = cycles + 1
          /\ mainPc' = "scheduled"
          /\ pc' = "messages"
    /\ (mainPc = "scheduled" /\ ~tickPending /\ tickPending') =>
          UNCHANGED << mainPc, pc, cycles, file, kpiData, cycleErr >>
    /\ file' # file =>
          /\ mainPc \in {"initial", "scheduled"}
          /\ file'.doc.cycle = cycles
          /\ file.doc.cycle <= cycles

\* C23: at most one collection cycle is in progress: a cycle is started only
\* by main at its select with no cycle running, a tick that fires during a
\* cycle starts nothing, and the file is written by the running cycle only,
\* in the order in which the cycles started.
C23_OneCycleAtATime ==
    /\ [](pc # "idle" => mainPc \in {"initial", "scheduled", "exited"})
    /\ [](mainPc = "select" => pc = "idle")
    /\ [][C23_Step]_vars

\* the ticker has fired while the second cycle is writing the file
C23_Witness ==
    /\ mainPc = "scheduled"
    /\ cycles = 2
    /\ pc = "write"
    /\ file.doc.cycle = 2
    /\ tickPending

\* C24: in a process started with an explicit reference date every cycle,
\* the first one and each scheduled one, runs with that date.
C24_EveryCycleUsesDate ==
    (targetDate # None /\ mainPc \in {"initial", "scheduled"}) => target = targetDate

(***************************************************************************)
(* The start of main on its own: loadConfig on bounded .env files and      *)
(* environments, and the ticker of the main loop.                          *)
(***************************************************************************)
\* the inputs of loadConfig: no .env file and any environment, or any .env
\* file and an empty or a full environment
ConfInputs ==
    {ConfOf(None, env) : env \in SettingSets}
    \cup {ConfOf(Some(lines), env) :
            lines \in SettingSets,
            env \in {<< >>, [k \in ConfigKeys |->
                               IF k = "UPDATE_INTERVAL_MINUTES" THEN "15"
                               ELSE CustomValue(k)]}}

InitConfig ==
    /\ once = FALSE
    /\ targetDate = None
    /\ now = ClockStart
    /\ users = << >>
    /\ store = DefaultStore
    /\ message = None
    /\ nsec = ""
    /\ post = IdlePost
    /\ conf \in ConfInputs
    /\ mainPc = "initial"
    /\ exitStatus = "running"
    /\ notified = FALSE
    /\ sigPending = FALSE
    /\ tickPending = FALSE
    /\ cycles = 0
    /\ logged = << "", None >>
    /\ pc = "idle"
    /\ target = None
    /\ cycleErr = FreshCycle.cycleErr
    /\ storeExpired = FreshCycle.storeExpired
    /\ nostrExpired = FreshCycle.nostrExpired
    /\ tr = FreshCycle.tr
    /\ queried = FreshCycle.queried
    /\ npubs = FreshCycle.npubs
    /\ pubkeys = FreshCycle.pubkeys
    /\ validNpubs = FreshCycle.validNpubs
    /\ filter = FreshCycle.filter
    /\ relayIdx = FreshCycle.relayIdx
    /\ conns = FreshCycle.conns
    /\ outcomes = FreshCycle.outcomes
    /\ allEvents = FreshCycle.allEvents
    /\ baseDate = FreshCycle.baseDate
    /\ notesByDay = FreshCycle.notesByDay
    /\ activeAuthors = FreshCycle.activeAuthors
    /\ evIdx = FreshCycle.evIdx
    /\ nd = FreshCycle.nd
    /\ kpiData = FreshCycle.kpiData
    /\ file = NoFile

\* cfg := loadConfig()
loadConfig ==
    /\ mainPc = "initial"
    /\ conf.cfg = None
    /\ conf' = [conf EXCEPT !.cfg = Some(LoadConfigOf(conf.file, conf.env))]
    /\ UNCHANGED << users, store, message, nsec, post, mainVars, now, pc, target, cycleErr,
                    storeVars, identVars, relayVars, procVars, kpiData, file >>

\* main gets past the collector set-up and the first cycle only with a store
\* address, a database name and an output path that is not a directory
FirstCyclePossible(cfg) ==
    /\ cfg.MongoURI # ""
    /\ cfg.MongoDB # ""
    /\ cfg.OutputPath # Cwd

\* ticker := time.NewTicker(cfg.UpdateInterval), reached without --once when
\* the first cycle is over: it panics for an interval that is not positive
NewTicker ==
    /\ mainPc = "initial"
    /\ ~once
    /\ conf.cfg # None
    /\ FirstCyclePossible(conf.cfg[1])
    /\ conf.ticker = "none"
    /\ IF conf.cfg[1].UpdateInterval > 0
       THEN /\ conf' = [conf EXCEPT !.ticker = "ticking"]
            /\ UNCHANGED << mainPc, exitStatus >>
       ELSE /\ conf' = [conf EXCEPT !.ticker = "panic"]
            /\ Exit("2")
    /\ UNCHANGED << users, store, message, nsec, post, once, targetDate, notified,
                    sigPending, tickPending, cycles, logged, now, pc, target, cycleErr,
                    storeVars, identVars, relayVars, procVars, kpiData, file >>

NextConfig ==
    \/ loadConfig
    \/ NewTicker

SpecConfig == InitConfig /\ [][NextConfig]_vars

\* the settings loadConfig reads: the .env file when there is one, else the
\* environment
Supplied == IF conf.file # None THEN conf.file[1] ELSE conf.env

\* C22: every setting that is not supplied has its documented default in the
\* configuration loadConfig returns, whether the settings come from the
\* environment or from a .env file with some of the keys, and the ticker is
\* started with a strictly positive interval.
C22_DefaultsForMissingKeys ==
    /\ conf.cfg # None =>
          /\ "MONGO_URI" \notin DOMAIN Supplied =>
                conf.cfg[1].MongoURI = "mongodb://localhost:27017"
          /\ "MONGO_DB" \notin DOMAIN Supplied => conf.cfg[1].MongoDB = "trustroots"
          /\ "NOSTR_RELAYS" \notin DOMAIN Supplied => conf.cfg[1].NostrRelays = Relays
          /\ "OUTPUT_PATH" \notin DOMAIN Supplied =>
                conf.cfg[1].OutputPath = "/app/public/kpi.json"
          /\ "UPDATE_INTERVAL_MINUTES" \notin DOMAIN Supplied =>
                conf.cfg[1].UpdateInterval = 60
          /\ conf.cfg[1].UpdateInterval > 0
    /\ conf.ticker # "panic"

(***************************************************************************)
(* NostrPoster.PostStats, called with the snapshot of a cycle that has     *)
(* returned without error.                                                 *)
(***************************************************************************)
\* what PostStats never touches: the cycle, its snapshot and the file
cycleVars ==
    << now, pc, target, cycleErr, storeVars, identVars, relayVars, procVars, kpiData, file >>

\* what of main a call that returns leaves alone
processVars == << once, targetDate, notified, sigPending, tickPending, cycles, logged >>

\* PostStats returns err
PostReturns(err) == post' = [post EXCEPT !.pc = "done", !.err = err]

\* PostStats from its first line to the relay loop: the nsec test, the
\* decoding, the unchecked privateKey.(string), the public key, the event
PostStatsStart ==
    /\ Running
    /\ pc = "ret"
    /\ cycleErr = None
    /\ kpiData # None
    /\ post.pc = "idle"
    /\ IF nsec = ""
       THEN /\ PostReturns(None)
            /\ UNCHANGED << message, mainPc, exitStatus >>
       ELSE IF DecodeSigner(nsec).err
       THEN /\ PostReturns(Some("failed to decode nsec"))
            /\ UNCHANGED << message, mainPc, exitStatus >>
       ELSE IF ~DecodeSigner(nsec).isString
       THEN /\ post' = [post EXCEPT !.pc = "panic"]
            /\ Exit("2")
            /\ UNCHANGED message
       ELSE IF ~HasPublicKey(nsec)
       THEN /\ PostReturns(Some("failed to get public key"))
            /\ UNCHANGED << message, mainPc, exitStatus >>
       ELSE /\ message' = Some(StatsMessageOf(kpiData[1]))
            /\ post' = [post EXCEPT !.pc = "connect", !.idx = 1]
            /\ UNCHANGED << mainPc, exitStatus >>
    /\ UNCHANGED << users, store, nsec, conf, processVars, cycleVars >>

\* nostr.RelayConnect(ctx, relayURL) of the posting loop: on an error the
\* loop continues with the next relay
PostConnect ==
    /\ Running
    /\ post.pc = "connect"
    /\ post.idx <= Len(Relays)
    /\ \/ post' = [post EXCEPT !.pc = "publish",
                               !.conns = @ \cup {post.idx},
                               !.attempted = @ \cup {post.idx}]
       \/ post' = [post EXCEPT !.idx = @ + 1,
                               !.attempted = @ \cup {post.idx}]
    /\ UNCHANGED << users, store, message, nsec, conf, mainVars, cycleVars >>

\* relay.Close() is called after Publish only when Publish gave no error
CloseAfterPublishOk(cs, i, published) == IF published THEN cs \ {i} ELSE cs

\* relay.Close() right after relay.Publish, whatever Publish returned
CloseAfterPublish(cs, i, published) == cs \ {i}

\* relay.Publish(ctx, *event), relay.Close(), the count of successes
PostPublish ==
    /\ Running
    /\ post.pc = "publish"
    /\ \E published \in BOOLEAN :
          post' = [post EXCEPT
                      !.pc = "connect",
                      !.idx = @ + 1,
                      !.conns = CloseAfterPublish(@, post.idx, published),
                      !.accepted = IF published THEN @ \cup {post.idx} ELSE @,
                      !.successCount = IF published THEN @ + 1 ELSE @]
    /\ UNCHANGED << users, store, message, nsec, conf, mainVars, cycleVars >>

\* after the loop: an error when no relay took the event, nil otherwise
PostStatsReturn ==
    /\ Running
    /\ post.pc = "connect"
    /\ post.idx > Len(Relays)
    /\ PostReturns(IF post.successCount = 0
                   THEN Some("failed to post to any relay")
                   ELSE None)
    /\ UNCHANGED << users, store, message, nsec, conf, mainVars, cycleVars >>

\* a cycle with a date and two users with keys, at the start of the relay
\* fan-out, in a process whose poster has any of the signer keys
InitPost ==
    /\ once = TRUE
    /\ users = << Field(AliceNpub), Field(BobNpub) >>
    /\ store = DefaultStore
    /\ targetDate = Some(DateFlag)
    /\ now = ClockStart
    /\ mainPc = "initial"
    /\ exitStatus = "running"
    /\ notified = FALSE
    /\ sigPending = FALSE
    /\ tickPending = FALSE
    /\ cycles = 1
    /\ logged = << "Running KPI collection...", None >>
    /\ pc = "connect"
    /\ target = targetDate
    /\ cycleErr = FreshCycle.cycleErr
    /\ storeExpired = FreshCycle.storeExpired
    /\ nostrExpired = FreshCycle.nostrExpired
    /\ tr = [f \in 1..Len(Families) |-> StoreAnswer(f)]
    /\ queried = [f \in 1..Len(Families) |-> "ok"]
    /\ npubs = NpubsOf(users)
    /\ pubkeys = PubkeysOf(npubs)
    /\ validNpubs = Len(pubkeys)
    /\ filter = Some(FilterOf(pubkeys))
    /\ relayIdx = 1
    /\ conns = {}
    /\ outcomes = << >>
    /\ allEvents = << >>
    /\ baseDate = FreshCycle.baseDate
    /\ notesByDay = FreshCycle.notesByDay
    /\ activeAuthors = FreshCycle.activeAuthors
    /\ evIdx = FreshCycle.evIdx
    /\ nd = FreshCycle.nd
    /\ kpiData = FreshCycle.kpiData
    /\ file = NoFile
    /\ message = None
    /\ nsec \in SignerKeys
    /\ post = IdlePost
    /\ conf = DefaultConf

NextPost ==
    \/ NostrCtxExpire
    \/ RelayConnect
    \/ QuerySync
    \/ queryRelays
    \/ processEventsInit
    \/ processEventsStep
    \/ processEvents
    \/ CollectAllData
    \/ MkdirAll
    \/ WriteFileOpen
    \/ WriteFileWrite
    \/ PostStatsStart
    \/ PostConnect
    \/ PostPublish
    \/ PostStatsReturn

SpecPost == InitPost /\ [][NextPost]_vars

\* C21: PostStats tries every configured relay, one independently of the
\* other, and always returns: nil exactly when the signer key is unset (and
\* then no relay was contacted) or at least one relay accepted the event, an
\* error when the key cannot be used or every relay failed; it never brings
\* the process down
C21_PostingFailsSoftly ==
    /\ post.pc # "panic"
    /\ exitStatus = "running"
    /\ post.pc = "done" =>
          /\ post.err = None <=> (nsec = "" \/ post.accepted # {})
          /\ nsec = "" => post.attempted = {}
          /\ post.err \in {None, Some("failed to post to any relay")} /\ nsec # ""
                => post.attempted = 1..Len(Relays)

\* C21: a call of PostStats changes neither the snapshot nor the file
C21_MetricsUntouched == [][post' # post => (kpiData' = kpiData /\ file' = file)]_vars

\* C25: no relay connection outlives the function that opened it: outside
\* the fan-out of queryRelays the collector holds none, also when a query
\* failed, and PostStats holds none when it turns to the next relay or returns
C25_ConnectionsClosed ==
    /\ pc \notin {"connect", "query"} => conns = {}
    /\ post.pc \in {"idle", "connect", "done", "panic"} => post.conns = {}
    /\ post.pc = "publish" => post.conns = {post.idx}

\* a query failed on a connected relay, the cycle has returned, PostStats has
\* published to both relays, one refusing the event, and has returned
C25_Witness ==
    /\ pc = "ret"
    /\ \E i \in 1..Len(outcomes) : outcomes[i].status = "query failed"
    /\ \E i \in 1..Len(outcomes) : outcomes[i].status = "ok"
    /\ post.pc = "done"
    /\ post.attempted = 1..Len(Relays)
    /\ post.accepted = {1}
    /\ conns = {}
    /\ post.conns = {}

====
